---- MODULE Spec2Model ----
(***************************************************************************)
(* Model of the GLEIF normalization pipeline of kyc-ai-knowledge-graph:    *)
(* the raw loaders (data_loader/processors.py), the two normalizers with   *)
(* their quality report (data_loader/normalization.py), the Parquet store  *)
(* (data_loader/persistence.py) and the pipeline run (data_loader/main.py).*)
(*                                                                         *)
(* A string is a sequence of one-character strings, so that strip and      *)
(* upper are computed character by character.  A DataFrame is a record     *)
(*   [columns : sequence of labels (duplicates allowed, as in pandas),     *)
(*    index   : sequence of row labels (kept by boolean filtering),        *)
(*    data    : sequence of rows, each aligned with columns].              *)
(***************************************************************************)
EXTENDS Integers, Sequences, FiniteSets, TLC

VARIABLES
    keepsNa,     \* build: Series.astype(str) keeps a missing value missing
                 \* (pandas >= 3) or turns it into "nan" / "None" (pandas < 3)
    dataset,     \* "entity" or "rel": which normalizer this run drives; in the
                 \* store, the dataset type of the batch under study
    via_loader,  \* the source goes through processors.py first, as in main
    source,      \* the source batch (file content), never modified; in the
                 \* store, the batch under study
    valid_leis,  \* the valid_leis argument of normalize_relationship_data
    pc,          \* position of the run
    err,         \* exception that ended the run, "" when none
    df,          \* the batch the run is working on
    report,      \* the DataQualityReport of the normalizer
    prev,        \* df and report as they were before the last stage
    removed,     \* "initial_count - len(df)" of the two filtering stages
    output_dir,  \* the files of ParquetPersistence.output_dir, by name
    clock,       \* datetime.now(), in seconds
    writer,      \* the write call that has opened its file and not closed it
    call,        \* the last call of the persistence API that returned or raised
    run,         \* the locals of main
    calls,       \* the calls of normalize_* made on the normalizer instance
    graph        \* the Neo4jConnection, the Neo4jDataLoader and its caller

vars == <<keepsNa, dataset, via_loader, source, valid_leis, pc, err, df, report, prev, removed,
          output_dir, clock, writer, call, run, calls, graph>>

\* the variables of the persistence layer, of main and of the graph loader
store_vars == <<output_dir, clock, writer, call, run, graph>>

-----------------------------------------------------------------------------
(* Bounds *)

MaxRows == 2
MaxSrcCols == 2
MaxFiles == 2
MaxClock == 1
MaxCalls == 2
MaxRecords == 4
MaxBatch == 3

-----------------------------------------------------------------------------
(* Values *)

NaN == <<"<NaN>">>
None == <<"<None>">>
NaT == <<"<NaT>">>

IsNa(v) == v \in {NaN, None, NaT}

Lowercase == <<"a","b","c","d","e","f","g","h","i","j","k","l","m",
               "n","o","p","q","r","s","t","u","v","w","x","y","z">>
Uppercase == <<"A","B","C","D","E","F","G","H","I","J","K","L","M",
               "N","O","P","Q","R","S","T","U","V","W","X","Y","Z">>
Whitespace == {" ", "\t", "\n", "\r"}

UpperChar(c) ==
    IF \E i \in 1..26 : Lowercase[i] = c
    THEN Uppercase[CHOOSE i \in 1..26 : Lowercase[i] = c]
    ELSE c

\* str.upper() on one string
Upper(s) == [i \in 1..Len(s) |-> UpperChar(s[i])]

RECURSIVE LStrip(_)
LStrip(s) == IF s # <<>> /\ Head(s) \in Whitespace THEN LStrip(Tail(s)) ELSE s

RECURSIVE RStrip(_)
RStrip(s) ==
    IF s # <<>> /\ s[Len(s)] \in Whitespace
    THEN RStrip(SubSeq(s, 1, Len(s) - 1))
    ELSE s

\* str.strip() on one string
Strip(s) == RStrip(LStrip(s))

\* Series.astype(str), one element: str(None) is "None", str(nan) is "nan";
\* a build with the string dtype keeps the missing value missing
AsTypeStr(v, keeps) ==
    IF IsNa(v)
    THEN IF keeps THEN NaN
         ELSE IF v = None THEN <<"N","o","n","e">>
         ELSE IF v = NaT THEN <<"N","a","T">>
         ELSE <<"n","a","n">>
    ELSE v

\* Series.str.strip(), Series.str.upper(), one element: missing stays missing
StrStrip(v) == IF IsNa(v) THEN v ELSE Strip(v)
StrUpper(v) == IF IsNa(v) THEN v ELSE Upper(v)

\* Series.fillna(""), one element
FillNaEmpty(v) == IF IsNa(v) THEN <<>> ELSE v

-----------------------------------------------------------------------------
(* DataFrame helpers *)

Contains(s, x) == \E i \in DOMAIN s : s[i] = x

RECURSIVE Flatten(_)
Flatten(ss) == IF ss = <<>> THEN <<>> ELSE Head(ss) \o Flatten(Tail(ss))

\* the positions of the columns labelled name, in column order
Positions(columns, name) ==
    SelectSeq([i \in 1..Len(columns) |-> i], LAMBDA i : columns[i] = name)

HasCol(d, name) == Contains(d.columns, name)

\* df[name] is a Series only when one column carries the label
IsSeries(d, name) == Len(Positions(d.columns, name)) = 1

ColPos(d, name) == Positions(d.columns, name)[1]

\* df[name], the values of a uniquely labelled column, row by row
Col(d, name) == [r \in 1..Len(d.data) |-> d.data[r][ColPos(d, name)]]

\* df[[...]]: the columns at the given positions, in that order
TakeColumns(d, pos) ==
    [columns |-> [k \in 1..Len(pos) |-> d.columns[pos[k]]],
     index   |-> d.index,
     data    |-> [r \in 1..Len(d.data) |->
                    [k \in 1..Len(pos) |-> d.data[r][pos[k]]]]]

\* df[list of labels]: every label selects all the columns that carry it
SelectLabels(d, labels) ==
    TakeColumns(d, Flatten([k \in 1..Len(labels) |-> Positions(d.columns, labels[k])]))

\* df.rename(columns=rename_map), rename_map a function on the labels it
\* renames
RenameColumns(d, rename_map) ==
    [d EXCEPT !.columns = [j \in 1..Len(d.columns) |->
        IF d.columns[j] \in DOMAIN rename_map THEN rename_map[d.columns[j]] ELSE d.columns[j]]]

\* df[label] = value: a new column at the end
AddColumn(d, label, value) ==
    [d EXCEPT !.columns = Append(d.columns, label),
              !.data = [r \in 1..Len(d.data) |-> Append(d.data[r], value)]]

\* df[mask], mask a boolean per row: the rows at which it holds, their
\* labels and order kept
FilterRows(d, mask) ==
    LET rows == SelectSeq([r \in 1..Len(d.data) |-> r], LAMBDA r : mask[r])
    IN  [d EXCEPT !.index = [k \in 1..Len(rows) |-> d.index[rows[k]]],
                  !.data  = [k \in 1..Len(rows) |-> d.data[rows[k]]]]

\* ~mask
Not(mask) == [r \in DOMAIN mask |-> ~mask[r]]

\* mask.sum()
CountTrue(mask) == Cardinality({r \in DOMAIN mask : mask[r]})

\* the values held by the frame
CellValues(d) == UNION {{d.data[r][j] : j \in 1..Len(d.columns)} : r \in 1..Len(d.data)}

NumRows(d) == Len(d.data)

-----------------------------------------------------------------------------
(* processors.py: the raw loaders *)

\* first_existing returns None when no candidate is a column
NoCol == "<None>"

RECURSIVE first_existing(_, _)
first_existing(col_candidates, columns) ==
    IF col_candidates = <<>> THEN NoCol
    ELSE IF Contains(columns, Head(col_candidates)) THEN Head(col_candidates)
    ELSE first_existing(Tail(col_candidates), columns)

\* "if c" / "if not c" on a column name or None
Truthy(c) == c # NoCol /\ c # ""

LeiColCandidates == <<"LEI", "lei", "LegalEntityIdentifier">>
NameColCandidates == <<"LegalName", "EntityLegalName", "Entity.LegalName", "Entity_LegalName">>
StatusColCandidates == <<"EntityStatus", "Entity.EntityStatus", "Entity_Status">>

\* load_and_normalize_lei_data after the file is read: the error it raises
LoadLeiRaises(file) ==
    IF Truthy(first_existing(LeiColCandidates, file.columns)) THEN "" ELSE "RuntimeError"

\* load_and_normalize_lei_data after the file is read: lei_small
load_and_normalize_lei_data(file) ==
    LET lei_col    == first_existing(LeiColCandidates, file.columns)
        name_col   == first_existing(NameColCandidates, file.columns)
        status_col == first_existing(StatusColCandidates, file.columns)
        lei_keep   == SelectSeq(<<lei_col, name_col, status_col>>, Truthy)
        rename_map == [c \in {k \in {lei_col, name_col, status_col} : Truthy(k)} |->
                          IF c = lei_col THEN "lei"
                          ELSE IF c = name_col THEN "legal_name"
                          ELSE "entity_status"]
    IN  RenameColumns(SelectLabels(file, lei_keep), rename_map)

StartColCandidates == <<"StartNodeID", "StartNode.NodeID", "StartNodeNodeID", "StartNode_ID">>
EndColCandidates == <<"EndNodeID", "EndNode.NodeID", "EndNodeNodeID", "EndNode_ID">>
RelTypeColCandidates == <<"RelationshipType", "Relationship.RelationshipType", "Relationship_Type">>
RelStatusColCandidates ==
    <<"RelationshipStatus", "RegistrationStatus", "Registration.RegistrationStatus", "Registration_Status">>

\* load_and_normalize_rr_data after the file is read: rr_small, or the empty
\* four-column frame when a start or end column is not found
load_and_normalize_rr_data(file) ==
    LET start_lei_col  == first_existing(StartColCandidates, file.columns)
        end_lei_col    == first_existing(EndColCandidates, file.columns)
        rel_type_col   == first_existing(RelTypeColCandidates, file.columns)
        rel_status_col == first_existing(RelStatusColCandidates, file.columns)
        rr_keep == SelectSeq(<<start_lei_col, end_lei_col, rel_type_col, rel_status_col>>, Truthy)
        rename_map ==
            [c \in {k \in {start_lei_col, end_lei_col, rel_type_col, rel_status_col} : Truthy(k)} |->
                IF c = start_lei_col THEN "child_lei"
                ELSE IF c = end_lei_col THEN "parent_lei"
                ELSE IF c = rel_type_col THEN "relationship_type"
                ELSE "relationship_status"]
    IN  IF ~Truthy(start_lei_col) \/ ~Truthy(end_lei_col)
        THEN [columns |-> <<"child_lei", "parent_lei", "relationship_type", "relationship_status">>,
              index |-> <<>>, data |-> <<>>]
        ELSE RenameColumns(SelectLabels(file, rr_keep), rename_map)

-----------------------------------------------------------------------------
(* normalization.py: schema tables and _map_columns *)

LEI_COLUMN_MAPPING == <<
    <<"LEI", "lei">>,
    <<"LegalName", "legalName">>,
    <<"Entity.LegalName", "legalName">>,
    <<"PreviousName", "previousName">>,
    <<"Entity.PreviousName", "previousName">>,
    <<"EntityLegalFormCode", "legalFormCode">>,
    <<"LegalFormCode", "legalFormCode">>,
    <<"Entity.LegalForm.EntityLegalFormCode", "legalFormCode">>,
    <<"OtherLegalForm", "legalFormText">>,
    <<"Entity.LegalForm.OtherLegalForm", "legalFormText">>,
    <<"EntityStatus", "entityStatus">>,
    <<"Entity.Status", "entityStatus">>,
    <<"EntityCategory", "entityCategory">>,
    <<"Entity.EntityCategory", "entityCategory">>,
    <<"RegistrationStatus", "registrationStatus">>,
    <<"Entity.RegistrationStatus", "registrationStatus">>,
    <<"LegalJurisdiction", "jurisdiction">>,
    <<"Entity.CountryOfIncorporation", "countryOfIncorporation">>,
    <<"Entity.CountryOfLatestArrival", "countryOfLatestArrival">>,
    <<"FirstAddressLine", "addressLine1">>,
    <<"AdditionalAddressLine", "addressLine2">>,
    <<"City", "city">>,
    <<"Region", "region">>,
    <<"PostalCode", "postalCode">>,
    <<"Country", "country">>,
    <<"RegistrationAuthorityID", "registrationAuthorityId">>,
    <<"RegistrationAuthorityEntityID", "registrationAuthorityEntityId">>,
    <<"ManagingLOU", "managingLou">>,
    <<"ValidationAuthorityID", "validationAuthorityId">>,
    <<"ValidationAuthorityEntityID", "validationAuthorityEntityId">>,
    <<"LastUpdateDate", "latestUpdateDate">>,
    <<"LatestUpdateDate", "latestUpdateDate">>,
    <<"EntityCreationDate", "registrationDate">>,
    <<"InitialRegistrationDate", "registrationDate">>,
    <<"RegistrationDate", "registrationDate">>,
    <<"NextRenewalDate", "nextRenewalDate">> >>

LEI_simple_mapping == <<
    <<"lei", "lei">>,
    <<"legal_name", "legalName">>,
    <<"entity_status", "entityStatus">>,
    <<"child_lei", "childLei">>,
    <<"parent_lei", "parentLei">>,
    <<"relationship_type", "relationshipType">>,
    <<"relationship_status", "relationshipStatus">> >>

RR_COLUMN_MAPPING == <<
    <<"RelationshipRecordID", "relationshipId">>,
    <<"ChildLEI", "childLei">>,
    <<"ParentLEI", "parentLei">>,
    <<"RelationshipStartDate", "relationshipStartDate">>,
    <<"RelationshipEndDate", "relationshipEndDate">>,
    <<"RelationshipType", "relationshipType">>,
    <<"RelationshipStatus", "relationshipStatus">>,
    <<"PercentageOwnership", "ownershipPercentage">> >>

RR_simple_mapping == <<
    <<"child_lei", "childLei">>,
    <<"parent_lei", "parentLei">>,
    <<"relationship_type", "relationshipType">>,
    <<"relationship_status", "relationshipStatus">> >>

\* the values of a mapping table
MappedCols(table) == {table[i][2] : i \in DOMAIN table}

\* "for old_col, new_col in COLUMN_MAPPING.items(): if new_col not in
\* df.columns: df[new_col] = None", from entry i on
RECURSIVE AddMissing(_, _, _)
AddMissing(d, table, i) ==
    IF i > Len(table) THEN d
    ELSE IF HasCol(d, table[i][2]) THEN AddMissing(d, table, i + 1)
    ELSE AddMissing(AddColumn(d, table[i][2], None), table, i + 1)

\* _map_columns of either normalizer: rename_map is decided against the
\* columns of the incoming frame, then rename, add the missing, select
MapColumns(d, COLUMN_MAPPING, simple_mapping) ==
    LET table == COLUMN_MAPPING \o simple_mapping
        InRenameMap(i) == /\ Contains(d.columns, table[i][1])
                          /\ ~Contains(d.columns, table[i][2])
        rename_map == [c \in {table[i][1] : i \in {k \in DOMAIN table : InRenameMap(k)}} |->
                          table[CHOOSE i \in DOMAIN table : table[i][1] = c][2]]
        renamed == RenameColumns(d, rename_map)
        filled  == AddMissing(renamed, COLUMN_MAPPING, 1)
        mapped_cols == MappedCols(table)
    IN  SelectLabels(filled, SelectSeq(filled.columns, LAMBDA c : c \in mapped_cols))

Lei_map_columns(d) == MapColumns(d, LEI_COLUMN_MAPPING, LEI_simple_mapping)

RR_map_columns(d) == MapColumns(d, RR_COLUMN_MAPPING, RR_simple_mapping)

-----------------------------------------------------------------------------
(* normalization.py: DataQualityReport *)

\* DataQualityReport.__init__
NewReport ==
    [total_records |-> 0, valid_records |-> 0, invalid_records |-> 0,
     warnings |-> <<>>, errors |-> <<>>, nulls_by_column |-> <<>>,
     duplicates |-> 0, referential_integrity_issues |-> 0]

\* DataQualityReport.add_warning; a warning text is kept as what it is
\* about, the column it names and the count it quotes
add_warning(rep, about, col, n) ==
    [rep EXCEPT !.warnings = Append(@, [about |-> about, col |-> col, n |-> n])]

Max(a, b) == IF a >= b THEN a ELSE b

\* mutant: the fraction valid / max(total, 1) is not scaled to a percentage
ValidityRate_Fraction(valid, total) == (valid * 100) \div Max(total, 1)

\* round(valid / max(total, 1) * 100, 2), in hundredths of a percent;
\* round() goes to the nearest value and to the even one on a tie
ValidityRate(valid, total) ==
    LET num == valid * 10000
        den == Max(total, 1)
        q == num \div den
        r == num % den
    IN  IF 2 * r < den THEN q
        ELSE IF 2 * r > den THEN q + 1
        ELSE IF q % 2 = 0 THEN q ELSE q + 1

\* DataQualityReport.report
ReportDict(rep) ==
    [total_records |-> rep.total_records,
     valid_records |-> rep.valid_records,
     invalid_records |-> rep.invalid_records,
     duplicate_count |-> rep.duplicates,
     referential_integrity_issues |-> rep.referential_integrity_issues,
     nulls_by_column |-> rep.nulls_by_column,
     warnings |-> Len(rep.warnings),
     errors |-> Len(rep.errors),
     validity_rate |-> ValidityRate(rep.valid_records, rep.total_records)]

-----------------------------------------------------------------------------
(* normalization.py: type coercion *)

Digits == <<"0","1","2","3","4","5","6","7","8","9">>

IsDigit(c) == \E i \in 1..10 : Digits[i] = c

DigitVal(c) == (CHOOSE i \in 1..10 : Digits[i] = c) - 1

AllDigits(s) == s # <<>> /\ \A i \in 1..Len(s) : IsDigit(s[i])

RECURSIVE NatVal(_)
NatVal(s) == IF s = <<>> THEN 0 ELSE NatVal(SubSeq(s, 1, Len(s) - 1)) * 10 + DigitVal(s[Len(s)])

\* the strings pd.to_datetime is taken to parse: YYYY-MM-DD with a month
\* in 01..12 and a day in 01..31 (the other formats it accepts are not covered)
IsDateString(s) ==
    /\ Len(s) = 10
    /\ s[5] = "-" /\ s[8] = "-"
    /\ AllDigits(SubSeq(s, 1, 4)) /\ AllDigits(SubSeq(s, 6, 7)) /\ AllDigits(SubSeq(s, 9, 10))
    /\ NatVal(SubSeq(s, 6, 7)) \in 1..12
    /\ NatVal(SubSeq(s, 9, 10)) \in 1..31

\* pd.to_datetime(x, errors="coerce"), one element
ToDatetime(v) ==
    IF IsNa(v) THEN NaT
    ELSE IF IsDateString(StrStrip(v)) THEN <<"<Timestamp>">> \o StrStrip(v)
    ELSE NaT

RECURSIVE DropLeadingZeros(_)
DropLeadingZeros(s) ==
    IF Len(s) > 1 /\ Head(s) = "0" THEN DropLeadingZeros(Tail(s)) ELSE s

\* the strings pd.to_numeric is taken to parse: an optional sign and digits
\* (decimal points and exponents are not covered)
IsIntString(s) ==
    \/ AllDigits(s)
    \/ s # <<>> /\ Head(s) \in {"-", "+"} /\ AllDigits(Tail(s))

\* pd.to_numeric(x, errors="coerce").clip(0, 100), one element
ToNumericClip(v) ==
    IF IsNa(v) \/ ~IsIntString(StrStrip(v)) THEN NaN
    ELSE LET t == StrStrip(v)
             negative == Head(t) = "-"
             digits == IF Head(t) \in {"-", "+"} THEN Tail(t) ELSE t
         IN  IF negative THEN <<"<float>", "0">>
             ELSE IF NatVal(digits) >= 100 THEN <<"<float>", "1", "0", "0">>
             ELSE <<"<float>">> \o DropLeadingZeros(digits)

\* "if col in df.columns: df[col] = f(df[col])" for each listed column,
\* element by element
MapCols(d, labels, f) ==
    [d EXCEPT !.data = [r \in 1..Len(d.data) |->
        [j \in 1..Len(d.columns) |->
            IF Contains(labels, d.columns[j]) THEN f[d.data[r][j]] ELSE d.data[r][j]]]]

\* a listed column that df[col] returns as a DataFrame, several columns
\* carrying the label
AnyNotSeries(d, labels) ==
    \E i \in DOMAIN labels : HasCol(d, labels[i]) /\ ~IsSeries(d, labels[i])

LeiDateCols == <<"latestUpdateDate", "registrationDate", "nextRenewalDate">>
LeiStringCols == <<"legalName", "city", "country", "addressLine1", "postalCode">>

\* the exception LEIDataNormalizer._convert_types ends with: a DataFrame has
\* no .str, and to_datetime cannot assemble a date from it
LeiConvertRaises(d) ==
    IF AnyNotSeries(d, <<"lei">>) THEN "AttributeError"
    ELSE IF AnyNotSeries(d, LeiDateCols) THEN "ValueError"
    ELSE IF AnyNotSeries(d, <<"entityStatus">>) THEN "AttributeError"
    ELSE IF AnyNotSeries(d, LeiStringCols) THEN "AttributeError"
    ELSE ""

\* LEIDataNormalizer._convert_types
Lei_convert_types(d, keeps) ==
    LET lei    == [v \in CellValues(d) |-> StrStrip(AsTypeStr(v, keeps))]
        date   == [v \in CellValues(d) |-> ToDatetime(v)]
        status == [v \in CellValues(d) |-> StrUpper(AsTypeStr(v, keeps))]
        text   == [v \in CellValues(d) |-> StrStrip(FillNaEmpty(AsTypeStr(v, keeps)))]
        d1 == MapCols(d, <<"lei">>, lei)
        d2 == MapCols(d1, LeiDateCols, date)
        d3 == MapCols(d2, <<"entityStatus">>, status)
    IN  MapCols(d3, LeiStringCols, text)

RRDateCols == <<"relationshipStartDate", "relationshipEndDate">>

\* the exception RelationshipDataNormalizer._convert_types ends with
RRConvertRaises(d) ==
    IF AnyNotSeries(d, <<"childLei", "parentLei">>) THEN "AttributeError"
    ELSE IF AnyNotSeries(d, RRDateCols) THEN "ValueError"
    ELSE IF AnyNotSeries(d, <<"relationshipStatus">>) THEN "AttributeError"
    ELSE IF AnyNotSeries(d, <<"ownershipPercentage">>) THEN "TypeError"
    ELSE ""

\* mutant: the records whose percentage does not parse are dropped
RR_convert_types_DropUnparsable(d, keeps) ==
    LET lei     == [v \in CellValues(d) |-> StrUpper(StrStrip(AsTypeStr(v, keeps)))]
        date    == [v \in CellValues(d) |-> ToDatetime(v)]
        status  == [v \in CellValues(d) |-> StrUpper(AsTypeStr(v, keeps))]
        percent == [v \in CellValues(d) |-> ToNumericClip(v)]
        d1 == MapCols(d, <<"childLei", "parentLei">>, lei)
        d2 == MapCols(d1, RRDateCols, date)
        d3 == MapCols(d2, <<"relationshipStatus">>, status)
        d4 == MapCols(d3, <<"ownershipPercentage">>, percent)
    IN  FilterRows(d4, [r \in 1..Len(d.data) |->
                           \/ IsNa(d.data[r][ColPos(d, "ownershipPercentage")])
                           \/ ~IsNa(d4.data[r][ColPos(d4, "ownershipPercentage")])])

\* RelationshipDataNormalizer._convert_types
RR_convert_types(d, keeps) ==
    LET lei     == [v \in CellValues(d) |-> StrUpper(StrStrip(AsTypeStr(v, keeps)))]
        date    == [v \in CellValues(d) |-> ToDatetime(v)]
        status  == [v \in CellValues(d) |-> StrUpper(AsTypeStr(v, keeps))]
        percent == [v \in CellValues(d) |-> ToNumericClip(v)]
        d1 == MapCols(d, <<"childLei", "parentLei">>, lei)
        d2 == MapCols(d1, RRDateCols, date)
        d3 == MapCols(d2, <<"relationshipStatus">>, status)
    IN  MapCols(d3, <<"ownershipPercentage">>, percent)

-----------------------------------------------------------------------------
(* normalization.py: filters, standardization, duplicates, entity ids *)

\* df[col].notna() & (df[col] != "")
NotEmptyMask(d, col) ==
    [r \in 1..Len(d.data) |-> ~IsNa(d.data[r][ColPos(d, col)]) /\ d.data[r][ColPos(d, col)] # <<>>]

\* ~df[col].isin(values)
NotInMask(d, col, values) ==
    [r \in 1..Len(d.data) |-> d.data[r][ColPos(d, col)] \notin values]

\* mutant: the mask is notna() alone, the empty string passes
RECURSIVE ValidateRequired_NotNaOnly(_, _, _)
ValidateRequired_NotNaOnly(d, rep, required) ==
    IF required = <<>> THEN [df |-> d, report |-> rep]
    ELSE IF ~HasCol(d, Head(required)) THEN ValidateRequired_NotNaOnly(d, rep, Tail(required))
    ELSE LET col == Head(required)
             mask == [r \in 1..Len(d.data) |-> ~IsNa(d.data[r][ColPos(d, col)])]
             removed_n == CountTrue(Not(mask))
         IN  ValidateRequired_NotNaOnly(
                 FilterRows(d, mask),
                 IF removed_n > 0 THEN add_warning(rep, "null", col, removed_n) ELSE rep,
                 Tail(required))

\* the loop of _validate_required_fields over the required columns: each
\* mask is computed on the frame the previous column left
RECURSIVE ValidateRequired(_, _, _)
ValidateRequired(d, rep, required) ==
    IF required = <<>> THEN [df |-> d, report |-> rep]
    ELSE IF ~HasCol(d, Head(required)) THEN ValidateRequired(d, rep, Tail(required))
    ELSE LET col == Head(required)
             mask == NotEmptyMask(d, col)
             removed_n == CountTrue(Not(mask))
         IN  ValidateRequired(
                 FilterRows(d, mask),
                 IF removed_n > 0 THEN add_warning(rep, "null", col, removed_n) ELSE rep,
                 Tail(required))

\* LEIDataNormalizer._validate_required_fields
Lei_validate_required_fields(d, rep) == ValidateRequired(d, rep, <<"lei", "legalName">>)

\* RelationshipDataNormalizer._validate_required_fields
RR_validate_required_fields(d, rep) == ValidateRequired(d, rep, <<"childLei", "parentLei">>)

S_ACTIVE == <<"A","C","T","I","V","E">>
S_INACTIVE == <<"I","N","A","C","T","I","V","E">>
S_MERGED == <<"M","E","R","G","E","D">>
S_OBSOLETE == <<"O","B","S","O","L","E","T","E">>
S_PENDING_ARCHIVAL == <<"P","E","N","D","I","N","G","_","A","R","C","H","I","V","A","L">>

VALID_ENTITY_STATUS == {S_ACTIVE, S_INACTIVE, S_MERGED, S_OBSOLETE, S_PENDING_ARCHIVAL}

VALID_RELATIONSHIP_STATUS == {S_ACTIVE, S_INACTIVE, S_OBSOLETE}

\* mutant: the unknown values are reported but not rewritten
DefaultToActive_Unchanged(d, col, valid) == d

\* df.loc[mask, col] = "ACTIVE" with mask = ~df[col].isin(valid)
DefaultToActive(d, col, valid) ==
    MapCols(d, <<col>>, [v \in CellValues(d) |-> IF v \in valid THEN v ELSE S_ACTIVE])

\* LEIDataNormalizer._standardize_values
Lei_standardize_values(d, rep) ==
    IF ~HasCol(d, "entityStatus") THEN [df |-> d, report |-> rep]
    ELSE LET mask == NotInMask(d, "entityStatus", VALID_ENTITY_STATUS)
             unknown_count == CountTrue(mask)
         IN  IF unknown_count > 0
             THEN [df |-> DefaultToActive(d, "entityStatus", VALID_ENTITY_STATUS),
                   report |-> add_warning(rep, "unknown", "entityStatus", unknown_count)]
             ELSE [df |-> d, report |-> rep]

\* RelationshipDataNormalizer._standardize_values
RR_standardize_values(d, rep) ==
    IF ~HasCol(d, "relationshipStatus") THEN [df |-> d, report |-> rep]
    ELSE LET mask == NotInMask(d, "relationshipStatus", VALID_RELATIONSHIP_STATUS)
             unknown_count == CountTrue(mask)
         IN  IF unknown_count > 0
             THEN [df |-> DefaultToActive(d, "relationshipStatus", VALID_RELATIONSHIP_STATUS),
                   report |-> add_warning(rep, "unknown", "relationshipStatus", unknown_count)]
             ELSE [df |-> d, report |-> rep]

\* the child check of _check_referential_integrity
CheckChild(d, rep, valid) ==
    IF ~HasCol(d, "childLei") THEN [df |-> d, report |-> rep]
    ELSE LET invalid_child == NotInMask(d, "childLei", valid)
             n == CountTrue(invalid_child)
         IN  IF n > 0
             THEN [df |-> FilterRows(d, Not(invalid_child)),
                   report |-> add_warning(
                       [rep EXCEPT !.referential_integrity_issues = @ + n],
                       "invalid", "childLei", n)]
             ELSE [df |-> d, report |-> rep]

\* the parent check of _check_referential_integrity
CheckParent(d, rep, valid) ==
    IF ~HasCol(d, "parentLei") THEN [df |-> d, report |-> rep]
    ELSE LET invalid_parent == NotInMask(d, "parentLei", valid)
             n == CountTrue(invalid_parent)
         IN  IF n > 0
             THEN [df |-> FilterRows(d, Not(invalid_parent)),
                   report |-> add_warning(
                       [rep EXCEPT !.referential_integrity_issues = @ + n],
                       "invalid", "parentLei", n)]
             ELSE [df |-> d, report |-> rep]

\* mutant: both masks are computed on the incoming frame
RR_check_referential_integrity_SamePass(d, rep, valid) ==
    LET c == CheckChild(d, rep, valid)
        p == CheckParent(d, c.report, valid)
        ok == [r \in 1..Len(d.data) |->
                  /\ d.data[r][ColPos(d, "childLei")] \in valid
                  /\ d.data[r][ColPos(d, "parentLei")] \in valid]
    IN  [df |-> FilterRows(d, ok), report |-> p.report]

\* mutant: the parent check is left out
RR_check_referential_integrity_ChildOnly(d, rep, valid) == CheckChild(d, rep, valid)

\* RelationshipDataNormalizer._check_referential_integrity: the parent
\* check runs on the frame the child check returned
RR_check_referential_integrity(d, rep, valid) ==
    LET c == CheckChild(d, rep, valid)
    IN  CheckParent(c.df, c.report, valid)

\* mutant: keep="first", the first record of each key is not counted
DuplicatedCount_KeepFirst(d, key) ==
    LET k(r) == [i \in 1..Len(key) |-> d.data[r][ColPos(d, key[i])]]
    IN  CountTrue([r \in 1..Len(d.data) |-> \E q \in 1..Len(d.data) : q < r /\ k(q) = k(r)])

\* len(df[df.duplicated(subset=key, keep=False)]): the rows whose key
\* columns equal those of another row
DuplicatedCount(d, key) ==
    LET k(r) == [i \in 1..Len(key) |-> d.data[r][ColPos(d, key[i])]]
    IN  CountTrue([r \in 1..Len(d.data) |-> \E q \in 1..Len(d.data) : q # r /\ k(q) = k(r)])

\* LEIDataNormalizer._detect_duplicates
Lei_detect_duplicates(d, rep) ==
    IF ~HasCol(d, "lei") THEN rep
    ELSE LET n == DuplicatedCount(d, <<"lei">>)
             counted == [rep EXCEPT !.duplicates = n]
         IN  IF n > 0 THEN add_warning(counted, "duplicate", "lei", n) ELSE counted

\* RelationshipDataNormalizer._detect_duplicates
RR_detect_duplicates(d, rep) ==
    IF ~(HasCol(d, "childLei") /\ HasCol(d, "parentLei")) THEN rep
    ELSE LET n == DuplicatedCount(d, <<"childLei", "parentLei">>)
             counted == [rep EXCEPT !.duplicates = n]
         IN  IF n > 0 THEN add_warning(counted, "duplicate", "childLei,parentLei", n) ELSE counted

\* hashlib.md5(lei.encode()).hexdigest()[:16]: a value fixed by the
\* characters of lei
Md5Hex16(lei) == <<"<md5>">> \o lei

\* mutant: the identifier is drawn from the lei and the place of the record
Lei_generate_entity_ids_ByPosition(d) ==
    LET at == ColPos(d, "lei")
    IN  [d EXCEPT !.columns = Append(d.columns, "entity_id"),
                  !.data = [r \in 1..Len(d.data) |->
                               Append(d.data[r], Md5Hex16(d.data[r][at] \o <<Digits[r]>>))]]

\* LEIDataNormalizer._generate_entity_ids
Lei_generate_entity_ids(d) ==
    LET at == ColPos(d, "lei")
    IN  [d EXCEPT !.columns = Append(d.columns, "entity_id"),
                  !.data = [r \in 1..Len(d.data) |-> Append(d.data[r], Md5Hex16(d.data[r][at]))]]

-----------------------------------------------------------------------------
(* persistence.py: file names *)

\* the characters of the file names, in code point order
CodePoints ==
    <<"-", ".", "0","1","2","3","4","5","6","7","8","9", "_",
      "a","b","c","d","e","f","g","h","i","j","k","l","m",
      "n","o","p","q","r","s","t","u","v","w","x","y","z">>

Ord(c) == CHOOSE i \in DOMAIN CodePoints : CodePoints[i] = c

\* a < b on str, and on Path for two files of one directory
LexLess(a, b) ==
    \E i \in 1..(Len(a) + 1) :
        /\ i <= Len(b)
        /\ \A j \in 1..(i - 1) : a[j] = b[j]
        /\ (i = Len(a) + 1 \/ Ord(a[i]) < Ord(b[i]))

RECURSIVE Insert(_, _)
Insert(x, list) ==
    IF list = <<>> THEN <<x>>
    ELSE IF LexLess(Head(list), x) THEN <<Head(list)>> \o Insert(x, Tail(list))
    ELSE <<x>> \o list

\* sorted(list)
RECURSIVE sorted(_)
sorted(list) == IF list = <<>> THEN <<>> ELSE Insert(Head(list), sorted(Tail(list)))

\* the elements of a set in some order, as an iterator yields them
RECURSIVE Listing(_)
Listing(S) ==
    IF S = {} THEN <<>>
    ELSE LET x == CHOOSE y \in S : TRUE IN <<x>> \o Listing(S \ {x})

StartsWith(s, p) == Len(s) >= Len(p) /\ SubSeq(s, 1, Len(p)) = p
EndsWith(s, p) == Len(s) >= Len(p) /\ SubSeq(s, Len(s) - Len(p) + 1, Len(s)) = p

\* str.replace(old, ""): every occurrence of old is removed
RECURSIVE Remove(_, _)
Remove(s, old) ==
    IF Len(s) < Len(old) THEN s
    ELSE IF SubSeq(s, 1, Len(old)) = old THEN Remove(SubSeq(s, Len(old) + 1, Len(s)), old)
    ELSE <<Head(s)>> \o Remove(Tail(s), old)

\* Path.stem: the name without its last suffix
Stem(f) ==
    LET dots == {i \in 2..Len(f) : f[i] = "."}
    IN  IF dots = {} THEN f
        ELSE SubSeq(f, 1, (CHOOSE i \in dots : \A k \in dots : k <= i) - 1)

LE_PREFIX == <<"l","e","g","a","l","_","e","n","t","i","t","i","e","s","_">>
RR_PREFIX == <<"r","e","l","a","t","i","o","n","s","h","i","p","s","_">>
QR_PREFIX == <<"q","u","a","l","i","t","y","_","r","e","p","o","r","t","_">>
PARQUET == <<".","p","a","r","q","u","e","t">>
JSON == <<".","j","s","o","n">>
LATEST == <<"l","a","t","e","s","t">>

\* the two dataset types and the prefix of their file names
Types == {"legal_entities", "relationships"}
Prefix(type) == IF type = "legal_entities" THEN LE_PREFIX ELSE RR_PREFIX

\* datetime.now().strftime("%Y%m%d_%H%M%S"), second resolution
Timestamp(t) ==
    <<"2","0","2","4","0","1","0","1","_","0","0","0","0">>
        \o <<Digits[(t \div 10) + 1], Digits[(t % 10) + 1]>>

\* "if version is None: version = <timestamp>"
ResolveVersion(version, now) == IF version = None THEN Timestamp(now) ELSE version

\* output_dir / f"<prefix><version>.parquet"
SnapshotFile(type, version) == Prefix(type) \o version \o PARQUET

\* output_dir / f"quality_report_{version}.json"
ReportFile(version) == QR_PREFIX \o version \o JSON

\* mutant: the pattern matches the Parquet files of either dataset type
Glob_AnyType(dir, type) == {f \in DOMAIN dir : EndsWith(f, PARQUET)}

\* output_dir.glob("<prefix>*.parquet")
Glob(dir, type) ==
    {f \in DOMAIN dir : /\ Len(f) >= Len(Prefix(type)) + Len(PARQUET)
                        /\ StartsWith(f, Prefix(type))
                        /\ EndsWith(f, PARQUET)}

-----------------------------------------------------------------------------
(* persistence.py: Parquet files *)

\* a missing value in a Parquet column
Null == <<"<null>">>

\* no data: what a call that raised returns
NoData == [columns |-> <<>>, index |-> <<>>, data |-> <<>>]

\* df.to_parquet refuses a frame with a repeated column name
ToParquetRaises(d) ==
    IF \E i, j \in DOMAIN d.columns : i # j /\ d.columns[i] = d.columns[j]
    THEN "ValueError" ELSE ""

\* df.to_parquet(index=False): the columns and the rows, without the index;
\* a missing value of a text column is stored as a null
ToParquet(d) ==
    [columns |-> d.columns,
     data |-> [r \in 1..Len(d.data) |->
                  [j \in 1..Len(d.columns) |->
                      IF d.data[r][j] \in {NaN, None} THEN Null ELSE d.data[r][j]]]]

\* pd.read_parquet: a fresh index; a null of a text column comes back as
\* NaN (pandas >= 3) or as None (pandas < 3)
ReadParquet(t, keeps) ==
    [columns |-> t.columns,
     index |-> [r \in 1..Len(t.data) |-> r - 1],
     data |-> [r \in 1..Len(t.data) |->
                  [j \in 1..Len(t.columns) |->
                      IF t.data[r][j] = Null THEN (IF keeps THEN NaN ELSE None)
                      ELSE t.data[r][j]]]]

\* a file of the directory: a Parquet table, complete once its writer has
\* closed it, or a JSON document
ParquetFile(table, complete) == [kind |-> "parquet", complete |-> complete, content |-> table]
JsonFile(doc) == [kind |-> "json", complete |-> TRUE, content |-> doc]

\* the directory with the file put at name, replacing what was there
PutFile(dir, name, file) ==
    [f \in DOMAIN dir \cup {name} |-> IF f = name THEN file ELSE dir[f]]

-----------------------------------------------------------------------------
(* persistence.py: ParquetPersistence *)

\* mutant: the last record of each key is the one kept
drop_duplicates_KeepLast(d, subset) ==
    LET k(r) == [i \in 1..Len(subset) |-> d.data[r][ColPos(d, subset[i])]]
    IN  FilterRows(d, [r \in 1..Len(d.data) |-> ~\E q \in (r + 1)..Len(d.data) : k(q) = k(r)])

\* df.drop_duplicates(subset=subset, keep="first")
drop_duplicates(d, subset) ==
    LET k(r) == [i \in 1..Len(subset) |-> d.data[r][ColPos(d, subset[i])]]
    IN  FilterRows(d, [r \in 1..Len(d.data) |-> ~\E q \in 1..(r - 1) : k(q) = k(r)])

\* the key columns of a dataset type
KeyCols(type) == IF type = "legal_entities" THEN <<"lei">> ELSE <<"childLei", "parentLei">>

\* write_legal_entities / write_relationships: "Ensure ... unique"
EnsureUnique(type, d) ==
    IF \A i \in DOMAIN KeyCols(type) : HasCol(d, KeyCols(type)[i])
    THEN IF DuplicatedCount(d, KeyCols(type)) > 0
         THEN drop_duplicates(d, KeyCols(type))
         ELSE d
    ELSE d

\* mutant: "latest" is the first file of the sorted listing
LatestFile_First(dir, type) == sorted(Listing(Glob(dir, type)))[1]

\* read_*: files = sorted(glob(...)); filename = files[-1]
LatestFile(dir, type) ==
    LET files == sorted(Listing(Glob(dir, type))) IN files[Len(files)]

\* read_legal_entities / read_relationships: the exception raised, "" when
\* none, and the frame returned
read(dir, type, version, keeps) ==
    IF version = LATEST /\ Glob(dir, type) = {}
    THEN [raised |-> "FileNotFoundError", out |-> NoData]
    ELSE LET filename == IF version = LATEST THEN LatestFile(dir, type)
                         ELSE SnapshotFile(type, version)
         IN  IF filename \notin DOMAIN dir
             THEN [raised |-> "FileNotFoundError", out |-> NoData]
             ELSE IF ~dir[filename].complete
             THEN [raised |-> "ArrowInvalid", out |-> NoData]
             ELSE [raised |-> "", out |-> ReadParquet(dir[filename].content, keeps)]

\* list_versions, one dataset type
VersionsOf(dir, type) ==
    LET files == Listing(Glob(dir, type))
    IN  sorted([i \in 1..Len(files) |-> Remove(Stem(files[i]), Prefix(type))])

\* list_versions
list_versions(dir) ==
    [legal_entities |-> VersionsOf(dir, "legal_entities"),
     relationships |-> VersionsOf(dir, "relationships")]

\* no write in progress, no call made yet, main not started
Idle == [busy |-> FALSE, type |-> "", version |-> <<>>, batch |-> NoData, file |-> <<>>]
NoCall ==
    [op |-> "", type |-> "", version |-> <<>>, batch |-> NoData, file |-> <<>>,
     raised |-> "", out |-> NoData]
NoRun ==
    [started |-> FALSE, lei_csv |-> NoData, rr_csv |-> NoData,
     lei_raw |-> NoData, rr_raw |-> NoData,
     lei_df |-> NoData, lei_report |-> NoData,
     rr_df |-> NoData, rr_report |-> NoData,
     lei_path |-> <<>>, rr_path |-> <<>>, lei_report_path |-> <<>>, rr_report_path |-> <<>>]

\* no graph load has begun: the connection has no driver, the loader has
\* processed nothing
NoGraph ==
    [caller |-> "", driver |-> FALSE, connected |-> FALSE,
     records |-> 0, batch_size |-> 1, i |-> 0,
     counts |-> [created |-> 0, updated |-> 0, failed |-> 0],
     batches |-> <<>>, sessions |-> 0, sessions_without_driver |-> 0]

-----------------------------------------------------------------------------
(* The sources a run starts from *)

\* columns of a Level 1 and of a Level 2 file whose records carry values
LeiFileCols == <<"LEI", "LegalName", "EntityStatus">>
RRFileCols == <<"StartNodeID", "EndNodeID", "RelationshipStatus">>

\* columns of sources that differ in their column vocabulary
LeiSchemaCols ==
    <<"LEI", "lei", "LegalEntityIdentifier", "LegalName", "Entity.LegalName",
      "legal_name", "child_lei", "Foo">>
RRSchemaCols == <<"ChildLEI", "child_lei", "ParentLEI", "parent_lei", "lei", "Foo">>

S_a_sp == <<"a", " ">>
S_B == <<"B">>
S_sp == <<" ">>
S_x == <<"x">>
S_merged == <<"m","e","r","g","e","d">>
S_inactive == <<"i","n","a","c","t","i","v","e">>
S_FOO == <<"F","O","O">>
S_date == <<"2","0","2","4","-","0","1","-","3","1">>
S_150 == <<"1","5","0">>
S_minus5 == <<"-","5">>

\* the values a cell of a file column may hold; a file read as text holds
\* NaN where the field is missing
Cells(col) ==
    IF col \in {"LEI", "StartNodeID", "EndNodeID"} THEN {NaN, S_a_sp, S_B}
    ELSE IF col = "LegalName" THEN {NaN, S_sp, S_x}
    ELSE IF col = "EntityStatus" THEN {S_merged, S_FOO}
    ELSE IF col \in {"ChildLEI", "ParentLEI"} THEN {S_B}
    ELSE IF col \in {"LastUpdateDate", "RelationshipStartDate"} THEN {NaN, S_x, S_date}
    ELSE IF col = "PercentageOwnership" THEN {S_x, S_150, S_minus5}
    ELSE {S_inactive, S_FOO}

AllCells(columns) == UNION {Cells(columns[j]) : j \in DOMAIN columns}

\* the rows over the given columns
RowsOver(columns) ==
    {row \in [1..Len(columns) -> AllCells(columns)] :
        \A j \in 1..Len(columns) : row[j] \in Cells(columns[j])}

\* the frames of n rows over the given columns, with the default index
Frames(columns, n) ==
    {[columns |-> columns, index |-> [r \in 1..n |-> r - 1], data |-> data] :
        data \in [1..n -> RowsOver(columns)]}

\* the sub-sequence of universe on the labels in chosen
Ordered(universe, chosen) == SelectSeq(universe, LAMBDA c : c \in chosen)

ValueSources(universe) ==
    UNION {Frames(Ordered(universe, chosen), n) :
              chosen \in SUBSET {universe[i] : i \in DOMAIN universe}, n \in 0..MaxRows}

\* one record, each value naming the column it is in
SchemaSources(universe) ==
    {[columns |-> Ordered(universe, chosen),
      index |-> <<0>>,
      data |-> <<[j \in 1..Cardinality(chosen) |-> <<Ordered(universe, chosen)[j]>>]>>] :
        chosen \in {c \in SUBSET {universe[i] : i \in DOMAIN universe} :
                       Cardinality(c) \in 1..MaxSrcCols}}

LeiUniverse == {<<"A">>, <<"B">>}

\* GLEIF files given to a normalizer directly, with a date column and a
\* percentage column whose values do and do not parse
LeiDatedCols == <<"LEI", "LastUpdateDate">>
RRDatedCols == <<"ChildLEI", "ParentLEI", "RelationshipStartDate", "PercentageOwnership">>
DatedSources(columns) == UNION {Frames(columns, n) : n \in 0..MaxRows}

InitRun(ds, loader, src, valid) ==
    /\ dataset = ds
    /\ via_loader = loader
    /\ source = src
    /\ valid_leis = valid
    /\ pc = IF loader THEN "start" ELSE "loaded"
    /\ err = ""
    /\ df = src
    /\ report = NewReport
    /\ prev = [df |-> src, report |-> NewReport]
    /\ removed = [required |-> 0, integrity |-> 0]
    /\ output_dir = <<>>
    /\ clock = 0
    /\ writer = Idle
    /\ call = NoCall
    /\ run = NoRun
    /\ calls = 1
    /\ graph = NoGraph

Init ==
    /\ keepsNa \in BOOLEAN
    /\ \/ \E src \in ValueSources(LeiFileCols) : InitRun("entity", TRUE, src, {})
       \/ \E src \in ValueSources(RRFileCols), valid \in SUBSET LeiUniverse :
              InitRun("rel", TRUE, src, valid)
       \/ \E src \in SchemaSources(LeiSchemaCols), loader \in BOOLEAN :
              InitRun("entity", loader, src, {})
       \/ \E src \in SchemaSources(RRSchemaCols), loader \in BOOLEAN :
              InitRun("rel", loader, src, {})
       \/ \E src \in DatedSources(LeiDatedCols) : InitRun("entity", FALSE, src, {})
       \/ \E src \in DatedSources(RRDatedCols) : InitRun("rel", FALSE, src, {S_B})

-----------------------------------------------------------------------------
(* The steps of a run *)

Step(to, d, rep) ==
    /\ pc' = to
    /\ df' = d
    /\ report' = rep
    /\ prev' = [df |-> df, report |-> report]
    /\ removed' = IF to = "validated" THEN [removed EXCEPT !.required = NumRows(df) - NumRows(d)]
                  ELSE IF to = "checked" THEN [removed EXCEPT !.integrity = NumRows(df) - NumRows(d)]
                  ELSE removed
    /\ UNCHANGED <<keepsNa, dataset, via_loader, source, valid_leis, err, calls>>
    /\ UNCHANGED store_vars

Raise(e) ==
    /\ pc' = "raised"
    /\ err' = e
    /\ prev' = [df |-> df, report |-> report]
    /\ UNCHANGED <<keepsNa, dataset, via_loader, source, valid_leis, df, report, removed, calls>>
    /\ UNCHANGED store_vars

\* main, step 2: lei_raw = load_and_normalize_lei_data(lei_csv)
LoadLei ==
    /\ pc = "start" /\ dataset = "entity"
    /\ IF LoadLeiRaises(df) # ""
       THEN Raise(LoadLeiRaises(df))
       ELSE Step("loaded", load_and_normalize_lei_data(df), report)

\* normalize_lei_data: total_records, then step 1
LeiMapColumns ==
    /\ pc = "loaded" /\ dataset = "entity"
    /\ Step("mapped", Lei_map_columns(df), [report EXCEPT !.total_records = NumRows(df)])

\* normalize_lei_data, step 2
LeiConvertTypes ==
    /\ pc = "mapped" /\ dataset = "entity"
    /\ IF LeiConvertRaises(df) # ""
       THEN Raise(LeiConvertRaises(df))
       ELSE Step("converted", Lei_convert_types(df, keepsNa), report)

\* normalize_lei_data, step 3
LeiValidateRequired ==
    /\ pc = "converted" /\ dataset = "entity"
    /\ LET out == Lei_validate_required_fields(df, report)
       IN  Step("validated", out.df, out.report)

\* normalize_lei_data, step 4
LeiStandardize ==
    /\ pc = "validated" /\ dataset = "entity"
    /\ LET out == Lei_standardize_values(df, report)
       IN  Step("standardized", out.df, out.report)

\* normalize_lei_data, step 5
LeiDetectDuplicates ==
    /\ pc = "standardized" /\ dataset = "entity"
    /\ Step("deduped", df, Lei_detect_duplicates(df, report))

\* normalize_lei_data, step 6
LeiGenerateIds ==
    /\ pc = "deduped" /\ dataset = "entity"
    /\ Step("identified", Lei_generate_entity_ids(df), report)

\* normalize_lei_data, final count and return
LeiFinish ==
    /\ pc = "identified" /\ dataset = "entity"
    /\ Step("done", df,
            [report EXCEPT !.valid_records = NumRows(df),
                           !.invalid_records = report.total_records - NumRows(df)])

\* main, step 2: rr_raw = load_and_normalize_rr_data(rr_csv)
LoadRR ==
    /\ pc = "start" /\ dataset = "rel"
    /\ Step("loaded", load_and_normalize_rr_data(df), report)

\* normalize_relationship_data: total_records, then step 1
RRMapColumns ==
    /\ pc = "loaded" /\ dataset = "rel"
    /\ Step("mapped", RR_map_columns(df), [report EXCEPT !.total_records = NumRows(df)])

\* normalize_relationship_data, step 2
RRConvertTypes ==
    /\ pc = "mapped" /\ dataset = "rel"
    /\ IF RRConvertRaises(df) # ""
       THEN Raise(RRConvertRaises(df))
       ELSE Step("converted", RR_convert_types(df, keepsNa), report)

\* normalize_relationship_data, step 3
RRValidateRequired ==
    /\ pc = "converted" /\ dataset = "rel"
    /\ LET out == RR_validate_required_fields(df, report)
       IN  Step("validated", out.df, out.report)

\* normalize_relationship_data, step 4
RRCheckReferentialIntegrity ==
    /\ pc = "validated" /\ dataset = "rel"
    /\ LET out == RR_check_referential_integrity(df, report, valid_leis)
       IN  Step("checked", out.df, out.report)

\* normalize_relationship_data, step 5
RRStandardize ==
    /\ pc = "checked" /\ dataset = "rel"
    /\ LET out == RR_standardize_values(df, report)
       IN  Step("standardized", out.df, out.report)

\* normalize_relationship_data, step 6
RRDetectDuplicates ==
    /\ pc = "standardized" /\ dataset = "rel"
    /\ Step("deduped", df, RR_detect_duplicates(df, report))

\* normalize_relationship_data, final count and return
RRFinish ==
    /\ pc = "deduped" /\ dataset = "rel"
    /\ Step("done", df,
            [report EXCEPT !.valid_records = NumRows(df),
                           !.invalid_records = report.total_records - NumRows(df)])

Next ==
    \/ LoadLei
    \/ LeiMapColumns
    \/ LeiConvertTypes
    \/ LeiValidateRequired
    \/ LeiStandardize
    \/ LeiDetectDuplicates
    \/ LeiGenerateIds
    \/ LeiFinish
    \/ LoadRR
    \/ RRMapColumns
    \/ RRConvertTypes
    \/ RRValidateRequired
    \/ RRCheckReferentialIntegrity
    \/ RRStandardize
    \/ RRDetectDuplicates
    \/ RRFinish

Spec == Init /\ [][Next]_vars

TypeOK ==
    /\ pc \in {"start", "loaded", "mapped", "converted", "validated", "checked",
               "standardized", "deduped", "identified", "done", "raised"}
    /\ \A r \in 1..Len(df.data) : Len(df.data[r]) = Len(df.columns)
    /\ Len(df.index) = Len(df.data)

-----------------------------------------------------------------------------
(* A normalizer instance that is called again.  self.report is created in  *)
(* __init__ and normalize_* never replaces it.                              *)

\* the batch the normalizer is called with
NormalizerInput ==
    IF ~via_loader THEN source
    ELSE IF dataset = "entity" THEN load_and_normalize_lei_data(source)
    ELSE load_and_normalize_rr_data(source)

\* normalize_* has returned and is called once more on the same instance,
\* with the same batch: the call starts from the report the instance holds
CallAgain ==
    /\ pc = "done"
    /\ calls < MaxCalls
    /\ calls' = calls + 1
    /\ pc' = "loaded"
    /\ df' = NormalizerInput
    /\ prev' = [df |-> df, report |-> report]
    /\ removed' = [required |-> 0, integrity |-> 0]
    /\ UNCHANGED <<keepsNa, dataset, via_loader, source, valid_leis, err, report>>
    /\ UNCHANGED store_vars

ReuseNext ==
    \/ Next
    \/ CallAgain

ReuseSpec == Init /\ [][ReuseNext]_vars

-----------------------------------------------------------------------------
(* The Parquet store under calls of its API.  A writer and the readers are  *)
(* separate callers: a write is the step that opens the file and the step   *)
(* that closes it, and a read may come between the two.                     *)

S_A == <<"A">>
S_y == <<"y">>

\* the version strings callers pass besides omitting the version (None):
\* the default version of the current second with a suffix, and one that
\* contains the name of a dataset type
V_NOW == Timestamp(0)
V_NOW_2 == Timestamp(0) \o <<"-", "2">>
V_LE_1 == LE_PREFIX \o <<"1">>
Versions == {V_NOW_2, V_LE_1}

\* the records a batch of the store is made of
BatchCols(type) ==
    IF type = "legal_entities" THEN <<"lei", "legalName">>
    ELSE <<"childLei", "parentLei", "relationshipType">>
BatchRows(type) ==
    IF type = "legal_entities" THEN {<<S_A, S_x>>, <<S_A, NaN>>, <<S_B, S_x>>}
    ELSE {<<S_A, S_B, S_x>>, <<S_A, S_B, S_y>>, <<S_B, S_A, S_x>>}

\* a batch with the given columns and rows and the default index
Frame(columns, rows) ==
    [columns |-> columns, index |-> [r \in 1..Len(rows) |-> r - 1], data |-> rows]

\* a batch without a key column, and one with a repeated column name
NoKeyBatch(type) ==
    IF type = "legal_entities" THEN Frame(<<"legalName">>, <<<<S_x>>, <<S_x>>>>)
    ELSE Frame(<<"childLei", "relationshipType">>, <<<<S_A, S_x>>, <<S_A, S_x>>>>)
RepeatedColumnBatch == Frame(<<"lei", "legalName", "legalName">>, <<<<S_A, S_x, S_x>>>>)

\* the batches of up to MaxRows records, no record repeated as a whole, and
\* the two above
Batches(type) ==
    UNION {{Frame(BatchCols(type), rows) :
               rows \in {s \in [1..n -> BatchRows(type)] : \A i, j \in 1..n : i # j => s[i] # s[j]}} :
           n \in 0..MaxRows}
        \cup {NoKeyBatch(type)}
        \cup (IF type = "legal_entities" THEN {RepeatedColumnBatch} ELSE {})

\* the batch written by the other writes of a behaviour
Seed(type) ==
    IF type = "legal_entities" THEN Frame(BatchCols(type), <<<<S_B, S_y>>>>)
    ELSE Frame(BatchCols(type), <<<<S_B, S_B, S_y>>>>)

\* the batches written in a behaviour: the batch under study, of the type
\* under study, and the seed batch
Written(type) == IF type = dataset THEN {source, Seed(type)} ELSE {Seed(type)}

\* the versions they are written under: any for the type under study, one
\* for the other type
WrittenVersions(type) == IF type = dataset THEN Versions \cup {None} ELSE {None}

StoreInit ==
    /\ keepsNa \in BOOLEAN
    /\ dataset \in Types
    /\ source \in Batches(dataset)
    /\ via_loader = FALSE
    /\ valid_leis = {}
    /\ pc = "store"
    /\ err = ""
    /\ df = NoData
    /\ report = NewReport
    /\ prev = [df |-> NoData, report |-> NewReport]
    /\ removed = [required |-> 0, integrity |-> 0]
    /\ output_dir = <<>>
    /\ clock = 0
    /\ writer = Idle
    /\ call = NoCall
    /\ run = NoRun
    /\ calls = 0
    /\ graph = NoGraph

pipeline_vars ==
    <<keepsNa, dataset, via_loader, source, valid_leis, pc, err, df, report, prev, removed, calls>>

\* write_legal_entities / write_relationships up to the point where
\* to_parquet has opened the target file
Write(type, version, batch) ==
    /\ pc = "store"
    /\ ~writer.busy
    /\ LET filename == SnapshotFile(type, ResolveVersion(version, clock))
           table == EnsureUnique(type, batch)
       IN  /\ filename \in DOMAIN output_dir \/ Cardinality(DOMAIN output_dir) < MaxFiles
           /\ IF ToParquetRaises(table) # ""
              THEN /\ call' = [op |-> "write", type |-> type, version |-> version, batch |-> batch,
                               file |-> filename, raised |-> ToParquetRaises(table), out |-> NoData]
                   /\ UNCHANGED <<output_dir, writer>>
              ELSE /\ output_dir' = PutFile(output_dir, filename, ParquetFile(ToParquet(table), FALSE))
                   /\ writer' = [busy |-> TRUE, type |-> type, version |-> version,
                                 batch |-> batch, file |-> filename]
                   /\ UNCHANGED call
    /\ UNCHANGED <<clock, run, graph>>
    /\ UNCHANGED pipeline_vars

\* to_parquet closes the file and the write returns
WriteDone ==
    /\ pc = "store"
    /\ writer.busy
    /\ output_dir' = [output_dir EXCEPT ![writer.file].complete = TRUE]
    /\ writer' = Idle
    /\ call' = [op |-> "write", type |-> writer.type, version |-> writer.version,
                batch |-> writer.batch, file |-> writer.file, raised |-> "", out |-> NoData]
    /\ UNCHANGED <<clock, run, graph>>
    /\ UNCHANGED pipeline_vars

\* read_legal_entities / read_relationships
Read(type, version) ==
    /\ pc = "store"
    /\ LET res == read(output_dir, type, version, keepsNa)
       IN  call' = [op |-> "read", type |-> type, version |-> version, batch |-> NoData,
                    file |-> <<>>, raised |-> res.raised, out |-> res.out]
    /\ UNCHANGED <<output_dir, clock, writer, run, graph>>
    /\ UNCHANGED pipeline_vars

\* list_versions
ListVersions ==
    /\ pc = "store"
    /\ call' = [op |-> "list", type |-> "", version |-> <<>>, batch |-> NoData,
                file |-> <<>>, raised |-> "", out |-> list_versions(output_dir)]
    /\ UNCHANGED <<output_dir, clock, writer, run, graph>>
    /\ UNCHANGED pipeline_vars

StoreNext ==
    \/ \E type \in Types :
           \E version \in WrittenVersions(type), batch \in Written(type) :
               Write(type, version, batch)
    \/ WriteDone
    \/ \E type \in Types, version \in {LATEST, V_NOW} : Read(type, version)
    \/ ListVersions

StoreSpec == StoreInit /\ [][StoreNext]_vars

-----------------------------------------------------------------------------
(* main.py: one run of the pipeline on an empty output directory *)

\* normalize_lei_data as a whole: the exception raised, "" when none, the
\* frame and the report returned
normalize_lei_data(raw, keeps) ==
    LET counted == [NewReport EXCEPT !.total_records = NumRows(raw)]
        mapped == Lei_map_columns(raw)
    IN  IF LeiConvertRaises(mapped) # ""
        THEN [raised |-> LeiConvertRaises(mapped), df |-> NoData, report |-> counted]
        ELSE LET validated == Lei_validate_required_fields(Lei_convert_types(mapped, keeps), counted)
                 standardized == Lei_standardize_values(validated.df, validated.report)
                 checked == Lei_detect_duplicates(standardized.df, standardized.report)
                 out == Lei_generate_entity_ids(standardized.df)
             IN  [raised |-> "", df |-> out,
                  report |-> [checked EXCEPT
                                 !.valid_records = NumRows(out),
                                 !.invalid_records = checked.total_records - NumRows(out)]]

\* normalize_relationship_data as a whole
normalize_relationship_data(raw, valid, keeps) ==
    LET counted == [NewReport EXCEPT !.total_records = NumRows(raw)]
        mapped == RR_map_columns(raw)
    IN  IF RRConvertRaises(mapped) # ""
        THEN [raised |-> RRConvertRaises(mapped), df |-> NoData, report |-> counted]
        ELSE LET validated == RR_validate_required_fields(RR_convert_types(mapped, keeps), counted)
                 referenced == RR_check_referential_integrity(validated.df, validated.report, valid)
                 standardized == RR_standardize_values(referenced.df, referenced.report)
                 checked == RR_detect_duplicates(standardized.df, standardized.report)
             IN  [raised |-> "", df |-> standardized.df,
                  report |-> [checked EXCEPT
                                 !.valid_records = NumRows(standardized.df),
                                 !.invalid_records = checked.total_records - NumRows(standardized.df)]]

\* mutant: the valid set holds the upper-cased lei values
ValidLeis_Upper(lei_df) ==
    IF HasCol(lei_df, "lei")
    THEN {Upper(lei_df.data[r][ColPos(lei_df, "lei")]) : r \in 1..NumRows(lei_df)}
    ELSE {}

\* set(lei_df["lei"].unique()) if "lei" in lei_df.columns else set()
ValidLeis(lei_df) ==
    IF HasCol(lei_df, "lei") THEN {lei_df.data[r][ColPos(lei_df, "lei")] : r \in 1..NumRows(lei_df)}
    ELSE {}

\* the Level 1 and Level 2 files of a run: no record or one record, a
\* Level 1 file without a LEI column and a Level 2 file without an end
\* node column
MainLeiFiles ==
    Frames(LeiFileCols, 0) \cup Frames(LeiFileCols, 1) \cup Frames(<<"LegalName">>, 1)
MainRRFiles ==
    Frames(RRFileCols, 0) \cup Frames(RRFileCols, 1) \cup Frames(<<"StartNodeID">>, 1)

\* the locals of main before its first step
StartRun(lei_csv, rr_csv) ==
    [started |-> TRUE, lei_csv |-> lei_csv, rr_csv |-> rr_csv,
     lei_raw |-> NoData, rr_raw |-> NoData,
     lei_df |-> NoData, lei_report |-> NewReport,
     rr_df |-> NoData, rr_report |-> NewReport,
     lei_path |-> <<>>, rr_path |-> <<>>, lei_report_path |-> <<>>, rr_report_path |-> <<>>]

MainInit ==
    /\ keepsNa \in BOOLEAN
    /\ dataset = ""
    /\ source = NoData
    /\ via_loader = TRUE
    /\ valid_leis = {}
    /\ pc = "main_start"
    /\ err = ""
    /\ df = NoData
    /\ report = NewReport
    /\ prev = [df |-> NoData, report |-> NewReport]
    /\ removed = [required |-> 0, integrity |-> 0]
    /\ output_dir = <<>>
    /\ clock = 0
    /\ writer = Idle
    /\ call = NoCall
    /\ calls = 0
    /\ graph = NoGraph
    /\ \E lei_csv \in MainLeiFiles, rr_csv \in MainRRFiles : run = StartRun(lei_csv, rr_csv)

\* main goes on to its next step
MainStep(to, locals, dir, valid) ==
    /\ pc' = to
    /\ run' = locals
    /\ output_dir' = dir
    /\ valid_leis' = valid
    /\ UNCHANGED <<keepsNa, dataset, via_loader, source, err, df, report, prev, removed, calls>>
    /\ UNCHANGED <<clock, writer, call, graph>>

\* an exception leaves main
MainRaise(e) ==
    /\ pc' = "main_raised"
    /\ err' = e
    /\ UNCHANGED <<keepsNa, dataset, via_loader, source, valid_leis, df, report, prev, removed, calls>>
    /\ UNCHANGED store_vars

\* the wall clock moves on to the next second while main runs
Tick ==
    /\ pc \in {"main_start", "main_loaded", "main_lei_done", "main_rr_done", "main_lei_written",
               "main_rr_written", "main_lei_report_written", "main_reports_written"}
    /\ clock < MaxClock
    /\ clock' = clock + 1
    /\ UNCHANGED <<output_dir, writer, call, run, graph>>
    /\ UNCHANGED pipeline_vars

\* main, step 2: the two raw loaders
MainLoad ==
    /\ pc = "main_start"
    /\ IF LoadLeiRaises(run.lei_csv) # ""
       THEN MainRaise(LoadLeiRaises(run.lei_csv))
       ELSE MainStep("main_loaded",
                     [run EXCEPT !.lei_raw = load_and_normalize_lei_data(run.lei_csv),
                                 !.rr_raw = load_and_normalize_rr_data(run.rr_csv)],
                     output_dir, valid_leis)

\* main, step 3: the entity normalizer and valid_leis
MainNormalizeLei ==
    /\ pc = "main_loaded"
    /\ LET res == normalize_lei_data(run.lei_raw, keepsNa)
       IN  IF res.raised # ""
           THEN MainRaise(res.raised)
           ELSE MainStep("main_lei_done",
                         [run EXCEPT !.lei_df = res.df, !.lei_report = res.report],
                         output_dir, ValidLeis(res.df))

\* main, step 3: the relationship normalizer
MainNormalizeRR ==
    /\ pc = "main_lei_done"
    /\ LET res == normalize_relationship_data(run.rr_raw, valid_leis, keepsNa)
       IN  IF res.raised # ""
           THEN MainRaise(res.raised)
           ELSE MainStep("main_rr_done",
                         [run EXCEPT !.rr_df = res.df, !.rr_report = res.report],
                         output_dir, valid_leis)

\* the exception a write of a snapshot raises: the one of to_parquet, or
\* the one of the file system when it refuses the write
WriteRaises(table, refused) ==
    IF ToParquetRaises(table) # "" THEN ToParquetRaises(table)
    ELSE IF refused THEN "OSError" ELSE ""

\* main, step 4: persistence.write_legal_entities(lei_df)
MainWriteEntities(refused) ==
    /\ pc = "main_rr_done"
    /\ LET filename == SnapshotFile("legal_entities", ResolveVersion(None, clock))
           table == EnsureUnique("legal_entities", run.lei_df)
       IN  IF WriteRaises(table, refused) # ""
           THEN MainRaise(WriteRaises(table, refused))
           ELSE MainStep("main_lei_written", [run EXCEPT !.lei_path = filename],
                         PutFile(output_dir, filename, ParquetFile(ToParquet(table), TRUE)),
                         valid_leis)

\* main, step 4: persistence.write_relationships(rr_df)
MainWriteRelationships(refused) ==
    /\ pc = "main_lei_written"
    /\ LET filename == SnapshotFile("relationships", ResolveVersion(None, clock))
           table == EnsureUnique("relationships", run.rr_df)
       IN  IF WriteRaises(table, refused) # ""
           THEN MainRaise(WriteRaises(table, refused))
           ELSE MainStep("main_rr_written", [run EXCEPT !.rr_path = filename],
                         PutFile(output_dir, filename, ParquetFile(ToParquet(table), TRUE)),
                         valid_leis)

\* main, step 4: persistence.write_quality_report(lei_report.report(), "full")
MainWriteLeiReport(refused) ==
    /\ pc = "main_rr_written"
    /\ LET filename == ReportFile(ResolveVersion(None, clock))
       IN  IF refused
           THEN MainRaise("OSError")
           ELSE MainStep("main_lei_report_written", [run EXCEPT !.lei_report_path = filename],
                         PutFile(output_dir, filename, JsonFile(ReportDict(run.lei_report))),
                         valid_leis)

\* main, step 4: persistence.write_quality_report(rr_report.report(), "full")
MainWriteRRReport(refused) ==
    /\ pc = "main_lei_report_written"
    /\ LET filename == ReportFile(ResolveVersion(None, clock))
       IN  IF refused
           THEN MainRaise("OSError")
           ELSE MainStep("main_reports_written", [run EXCEPT !.rr_report_path = filename],
                         PutFile(output_dir, filename, JsonFile(ReportDict(run.rr_report))),
                         valid_leis)

\* main, step 5 with load_to_neo4j false, and the return
MainFinish ==
    /\ pc = "main_reports_written"
    /\ MainStep("main_done", run, output_dir, valid_leis)

MainNext ==
    \/ Tick
    \/ MainLoad
    \/ MainNormalizeLei
    \/ MainNormalizeRR
    \/ \E refused \in BOOLEAN : MainWriteEntities(refused)
    \/ \E refused \in BOOLEAN : MainWriteRelationships(refused)
    \/ \E refused \in BOOLEAN : MainWriteLeiReport(refused)
    \/ \E refused \in BOOLEAN : MainWriteRRReport(refused)
    \/ MainFinish

MainSpec == MainInit /\ [][MainNext]_vars

-----------------------------------------------------------------------------
(* neo4j_module: Neo4jConnection and Neo4jDataLoader.load_legal_entities   *)
(* under their callers.  main creates the connection and the loader and    *)
(* loads; test_mvp_simple calls connect() first and ignores what it        *)
(* returns; any other client of the two classes may do either and may      *)
(* choose the batch size.  load_addresses, create_located_at_relationships *)
(* and load_relationships repeat the loop of load_legal_entities and are   *)
(* not modelled.                                                           *)

\* batch_size as main and test_mvp_simple pass it, and its default
DefaultBatchSize == 500

Callers == {"main", "test_mvp_simple", "client"}

\* a connection and a loader in the hands of a caller that is about to load
\* n records; test_mvp_simple loads entities only when there are some
NewGraph(caller, n, batch_size) ==
    [NoGraph EXCEPT !.caller = caller, !.records = n, !.batch_size = batch_size]

GraphLoads ==
    {NewGraph("main", n, DefaultBatchSize) : n \in 0..MaxRecords}
    \cup {NewGraph("test_mvp_simple", n, DefaultBatchSize) : n \in 1..MaxRecords}
    \cup {NewGraph("client", n, b) : n \in 0..MaxRecords, b \in 1..MaxBatch}

GraphInit ==
    /\ keepsNa \in BOOLEAN
    /\ dataset = ""
    /\ source = NoData
    /\ via_loader = FALSE
    /\ valid_leis = {}
    /\ pc = "graph_start"
    /\ err = ""
    /\ df = NoData
    /\ report = NewReport
    /\ prev = [df |-> NoData, report |-> NewReport]
    /\ removed = [required |-> 0, integrity |-> 0]
    /\ output_dir = <<>>
    /\ clock = 0
    /\ writer = Idle
    /\ call = NoCall
    /\ run = NoRun
    /\ calls = 0
    /\ graph \in GraphLoads

GraphStep(to, g) ==
    /\ pc' = to
    /\ graph' = g
    /\ UNCHANGED <<keepsNa, dataset, via_loader, source, valid_leis, err, df, report, prev, removed, calls>>
    /\ UNCHANGED <<output_dir, clock, writer, call, run>>

\* Neo4jConnection.connect: "connected" returns True; "unavailable" has set
\* self.driver and returns False from the verification query; "no_driver"
\* returns False from GraphDatabase.driver, self.driver still None.  The
\* callers that call it do not look at what it returns.
Connect(outcome) ==
    /\ pc = "graph_start"
    /\ graph.caller \in {"test_mvp_simple", "client"}
    /\ GraphStep("graph_ready",
                 [graph EXCEPT !.driver = (outcome # "no_driver"),
                               !.connected = (outcome = "connected")])

\* Neo4jConnection() and Neo4jDataLoader(conn) with no call of connect
NewLoader ==
    /\ pc = "graph_start"
    /\ graph.caller \in {"main", "client"}
    /\ GraphStep("graph_ready", graph)

Min(a, b) == IF a < b THEN a ELSE b

\* Neo4jDataLoader._create_legal_entity_batch: the counts it returns for a
\* batch of the given size.  get_session returns None when the driver is
\* unset and "with None" raises; an exception of the session or of the
\* transaction is caught as well; each ends in {"created": 0, "updated": 0}
create_legal_entity_batch(size, driver, transaction_ok) ==
    IF driver /\ transaction_ok THEN [created |-> size, updated |-> 0]
    ELSE [created |-> 0, updated |-> 0]

\* load_legal_entities, one turn of its loop: batch = records[i:i+batch_size].
\* _create_legal_entity_batch raises nothing, so the except branch that adds
\* len(batch) to failed is never taken
LoadBatch(transaction_ok) ==
    /\ pc = "graph_ready"
    /\ graph.i < graph.records
    /\ transaction_ok => graph.driver
    /\ LET size == Min(graph.batch_size, graph.records - graph.i)
           batch_counts == create_legal_entity_batch(size, graph.driver, transaction_ok)
       IN  GraphStep("graph_ready",
                     [graph EXCEPT
                         !.i = graph.i + graph.batch_size,
                         !.batches = Append(graph.batches, <<graph.i, graph.i + size>>),
                         !.sessions = IF graph.driver THEN @ + 1 ELSE @,
                         !.sessions_without_driver = IF graph.driver THEN @ ELSE @ + 1,
                         !.counts = [@ EXCEPT !.created = @ + batch_counts.created,
                                              !.updated = @ + batch_counts.updated]])

\* load_legal_entities returns counts
LoadReturn ==
    /\ pc = "graph_ready"
    /\ graph.i >= graph.records
    /\ GraphStep("graph_returned", graph)

\* Neo4jConnection.close
Close ==
    /\ pc = "graph_returned"
    /\ GraphStep("graph_closed", graph)

GraphNext ==
    \/ \E outcome \in {"connected", "unavailable", "no_driver"} : Connect(outcome)
    \/ NewLoader
    \/ \E transaction_ok \in BOOLEAN : LoadBatch(transaction_ok)
    \/ LoadReturn
    \/ Close

GraphSpec == GraphInit /\ [][GraphNext]_vars

-----------------------------------------------------------------------------
(* Properties *)

\* the value of a uniquely labelled column in row r
Val(d, r, col) == d.data[r][ColPos(d, col)]

\* the output of a normalizer is the batch of a run that returned
Returned(ds) == pc = "done" /\ dataset = ds

\* the value a source record has for the field the raw loader reads from the
\* first existing candidate column; missing when there is no such column
SourceField(r, candidates) ==
    IF first_existing(candidates, source.columns) = NoCol THEN NaN
    ELSE Val(source, r, first_existing(candidates, source.columns))

\* C1: the referential-integrity check returns exactly the records of its
\* input whose childLei and parentLei are both in V, in input order, and
\* the number of records it removes is the number failing either predicate.
C1_ReferentialIntegrityExact ==
    pc = "checked" =>
        LET in == prev.df
            good == [r \in 1..NumRows(in) |->
                        Val(in, r, "childLei") \in valid_leis /\ Val(in, r, "parentLei") \in valid_leis]
        IN  /\ df = FilterRows(in, good)
            /\ \A k \in 1..NumRows(df) :
                   Val(df, k, "childLei") \in valid_leis /\ Val(df, k, "parentLei") \in valid_leis
            /\ NumRows(in) - NumRows(df) = CountTrue(Not(good))

\* C1 witness: the check kept one record and removed another.
C1_Witness ==
    /\ pc = "checked"
    /\ NumRows(df) >= 1
    /\ NumRows(prev.df) > NumRows(df)

\* C2: a source record whose lei or legalName is missing is not in the output
\* of normalize_lei_data and is counted in invalid_records.
C2_NullRequiredRemoved ==
    (Returned("entity") /\ via_loader) =>
        LET missing == [r \in 1..NumRows(source) |->
                           \/ IsNa(SourceField(r, LeiColCandidates))
                           \/ IsNa(SourceField(r, NameColCandidates))]
        IN  /\ \A r \in 1..NumRows(source) :
                   missing[r] => ~Contains(df.index, source.index[r])
            /\ report.invalid_records >= CountTrue(missing)

\* the required columns of the running normalizer
RequiredCols == IF dataset = "entity" THEN <<"lei", "legalName">> ELSE <<"childLei", "parentLei">>

\* the required-field stage as a filter of the batch it is given: the
\* output is the input rows that have a value in every required field, in
\* input order and unchanged, so every dropped row lacks one
RequiredFilterExact ==
    pc = "validated" =>
        LET in == prev.df
            has(r, col) == ~IsNa(Val(in, r, col)) /\ Val(in, r, col) # <<>>
            good == [r \in 1..NumRows(in) |-> \A i \in DOMAIN RequiredCols : has(r, RequiredCols[i])]
        IN  /\ df = FilterRows(in, good)
            /\ \A r \in 1..NumRows(in) :
                   ~Contains(df.index, in.index[r]) =>
                       \E i \in DOMAIN RequiredCols : ~has(r, RequiredCols[i])
            /\ \A k \in 1..NumRows(df), i \in DOMAIN RequiredCols :
                   ~IsNa(Val(df, k, RequiredCols[i])) /\ Val(df, k, RequiredCols[i]) # <<>>
            /\ removed.required = NumRows(in) - NumRows(df)

\* C3 as stated: the required-field stage is an exact order-preserving
\* filter and invalid_records equals the number of rows it dropped, for
\* either normalizer.
C3_Original ==
    /\ RequiredFilterExact
    /\ pc = "done" => report.invalid_records = removed.required

\* C3 amended: the stage is an exact order-preserving filter; in an entity
\* run invalid_records equals the number of rows it dropped, in a
\* relationship run that number plus the rows removed by the
\* referential-integrity check.
C3_RequiredFilter ==
    /\ RequiredFilterExact
    /\ Returned("entity") => report.invalid_records = removed.required
    /\ Returned("rel") => report.invalid_records = removed.required + removed.integrity

\* C3 witness: an entity run dropped the one record with an empty legalName
\* and reports one invalid record.
C3_Witness ==
    /\ Returned("entity")
    /\ NumRows(source) = 2
    /\ \E r \in 1..2 : SourceField(r, NameColCandidates) = S_sp
                       /\ ~Contains(df.index, source.index[r])
    /\ removed.required = 1
    /\ report.invalid_records = 1

\* the status column and the closed enumeration of the running normalizer
StatusCol == IF dataset = "entity" THEN "entityStatus" ELSE "relationshipStatus"
ValidStatus == IF dataset = "entity" THEN VALID_ENTITY_STATUS ELSE VALID_RELATIONSHIP_STATUS

\* C4: from standardization on, every record of either normalizer carries a
\* status of its closed enumeration; standardization rewrites exactly the
\* values outside it (a missing one too) to ACTIVE, keeps the others, and
\* adds one warning when it rewrote something and none otherwise.
C4_StatusClosed ==
    /\ pc \in {"standardized", "deduped", "identified", "done"} =>
           \A k \in 1..NumRows(df) : Val(df, k, StatusCol) \in ValidStatus
    /\ pc = "standardized" =>
           LET in == prev.df
               unknown(r) == Val(in, r, StatusCol) \notin ValidStatus
           IN  /\ NumRows(df) = NumRows(in)
               /\ \A r \in 1..NumRows(in) :
                      Val(df, r, StatusCol) = IF unknown(r) THEN S_ACTIVE ELSE Val(in, r, StatusCol)
               /\ Len(report.warnings) - Len(prev.report.warnings)
                      = IF \E r \in 1..NumRows(in) : unknown(r) THEN 1 ELSE 0

\* C4 witness: standardization rewrote the status of two records and added
\* a single warning.
C4_Witness ==
    /\ pc = "standardized"
    /\ NumRows(df) = 2
    /\ \A r \in 1..2 : Val(prev.df, r, StatusCol) \notin ValidStatus
                       /\ Val(df, r, StatusCol) = S_ACTIVE
    /\ Len(report.warnings) = Len(prev.report.warnings) + 1

\* C5: every lei in the output of normalize_lei_data is the source lei
\* trimmed and upper-cased.
C5_LeiTrimmedUpper ==
    (Returned("entity") /\ via_loader) =>
        \A k \in 1..NumRows(df) :
            LET raw == SourceField(df.index[k] + 1, LeiColCandidates)
            IN  ~IsNa(raw) => Val(df, k, "lei") = Upper(Strip(raw))

\* the records of the batch entering the referential-integrity check that
\* fail the child and the parent predicate
InvalidChild == [r \in 1..NumRows(prev.df) |-> Val(prev.df, r, "childLei") \notin valid_leis]
InvalidParent == [r \in 1..NumRows(prev.df) |-> Val(prev.df, r, "parentLei") \notin valid_leis]
InvalidEither == [r \in 1..NumRows(prev.df) |-> InvalidChild[r] \/ InvalidParent[r]]
InvalidBoth == [r \in 1..NumRows(prev.df) |-> InvalidChild[r] /\ InvalidParent[r]]
InvalidParentOnly == [r \in 1..NumRows(prev.df) |-> ~InvalidChild[r] /\ InvalidParent[r]]

Abs(n) == IF n < 0 THEN -n ELSE n

\* C7: the report of a returned run on a fresh normalizer has
\* 0 <= valid <= total, invalid = total - valid, a validity_rate between 0
\* and 100 that is valid / total * 100 to the two decimals of the report,
\* and a rate of 0 when total is 0.
C7_ReportCounts ==
    pc = "done" =>
        LET rd == ReportDict(report)
        IN  /\ 0 <= rd.valid_records /\ rd.valid_records <= rd.total_records
            /\ rd.invalid_records = rd.total_records - rd.valid_records
            /\ 0 <= rd.validity_rate /\ rd.validity_rate <= 10000
            /\ rd.total_records = 0 => rd.validity_rate = 0
            /\ rd.total_records > 0 =>
                   2 * Abs(rd.validity_rate * rd.total_records - rd.valid_records * 10000)
                       <= rd.total_records

\* C7 witness: a run returned one valid record out of two.
C7_Witness ==
    /\ pc = "done"
    /\ ReportDict(report).total_records = 2
    /\ ReportDict(report).valid_records = 1
    /\ ReportDict(report).validity_rate = 5000

\* the synonym table and the canonical fields of the running normalizer
SynonymTable ==
    IF dataset = "entity" THEN LEI_COLUMN_MAPPING \o LEI_simple_mapping
    ELSE RR_COLUMN_MAPPING \o RR_simple_mapping
CanonicalFields ==
    IF dataset = "entity" THEN MappedCols(LEI_COLUMN_MAPPING) ELSE MappedCols(RR_COLUMN_MAPPING)

\* C8: schema resolution is idempotent: _map_columns applied to its own
\* result returns the same columns and values, for both normalizers.
C8_MapColumnsIdempotent ==
    pc = "mapped" =>
        (IF dataset = "entity" THEN Lei_map_columns(df) ELSE RR_map_columns(df)) = df

\* C9: the resolved batch has exactly the canonical fields of its dataset
\* type, each once; a canonical field without a source column is null in
\* every record.
C9_ExactCanonicalSet ==
    pc = "mapped" =>
        LET in == prev.df
            sourced(c) == \/ Contains(in.columns, c)
                          \/ \E i \in DOMAIN SynonymTable :
                                 SynonymTable[i][2] = c /\ Contains(in.columns, SynonymTable[i][1])
        IN  /\ \A c \in CanonicalFields : Len(Positions(df.columns, c)) = 1
            /\ \A j \in 1..Len(df.columns) : df.columns[j] \in CanonicalFields
            /\ \A c \in CanonicalFields :
                   ~sourced(c) => \A r \in 1..NumRows(df) : Val(df, r, c) = None

\* the canonical field is a single column holding the values of the first
\* candidate column that the source has
TakenFromFirst(candidates, canonical) ==
    /\ IsSeries(df, canonical)
    /\ Col(df, canonical) = Col(source, first_existing(candidates, source.columns))

SeveralPresent(candidates) ==
    Cardinality({i \in DOMAIN candidates : Contains(source.columns, candidates[i])}) > 1

\* C10: when the source has several synonym columns of lei, the raw loader
\* and the normalizer both fill lei from the first of LEI, lei,
\* LegalEntityIdentifier that is present and drop the others.
C10_FirstSynonymWins ==
    (dataset = "entity" /\ SeveralPresent(LeiColCandidates)) =>
        /\ (via_loader /\ pc = "loaded") => TakenFromFirst(LeiColCandidates, "lei")
        /\ (~via_loader /\ pc = "mapped") => TakenFromFirst(LeiColCandidates, "lei")

-----------------------------------------------------------------------------
(* Properties of the Parquet store *)

\* a write has returned and no other write has started since
Wrote == call.op = "write" /\ call.raised = "" /\ ~writer.busy

\* the batch has the key columns of its dataset type
HasKey(type, batch) == \A i \in DOMAIN KeyCols(type) : HasCol(batch, KeyCols(type)[i])

\* the key of record r of a batch or of a table with the same columns
KeyOf(type, columns, row) ==
    [i \in DOMAIN KeyCols(type) |-> row[CHOOSE j \in DOMAIN columns : columns[j] = KeyCols(type)[i]]]

\* C11: the snapshot a write leaves holds exactly one record per distinct
\* key of the batch (lei, or the pair childLei, parentLei), and that record
\* is the first one with the key in batch order.
C11_FirstOfEachKey ==
    (Wrote /\ HasKey(call.type, call.batch)) =>
        LET b == call.batch
            t == output_dir[call.file].content
            bkey(r) == KeyOf(call.type, b.columns, b.data[r])
            tkey(k) == KeyOf(call.type, t.columns, t.data[k])
        IN  /\ t.columns = b.columns
            /\ \A r \in 1..NumRows(b) :
                   Cardinality({k \in 1..Len(t.data) : tkey(k) = bkey(r)}) = 1
            /\ Len(t.data) = Cardinality({bkey(r) : r \in 1..NumRows(b)})
            /\ \A k \in 1..Len(t.data) :
                   \E r \in 1..NumRows(b) :
                       /\ t.data[k] = ToParquet(b).data[r]
                       /\ \A q \in 1..(r - 1) : bkey(q) # bkey(r)

\* C11 witness: a batch of two records with one key and different values
\* was written, and the snapshot holds the first of them only.
C11_Witness ==
    /\ Wrote /\ HasKey(call.type, call.batch)
    /\ NumRows(call.batch) = 2
    /\ call.batch.data[1] # call.batch.data[2]
    /\ KeyOf(call.type, call.batch.columns, call.batch.data[1])
           = KeyOf(call.type, call.batch.columns, call.batch.data[2])
    /\ output_dir[call.file].content.data = <<ToParquet(call.batch).data[1]>>

\* two values of a field are the same value, or both are missing
SameValue(a, b) == a = b \/ (a \in {NaN, None} /\ b \in {NaN, None})

\* the frame holds the records of the batch, field by field
SameRecords(out, batch) ==
    /\ out.columns = batch.columns
    /\ NumRows(out) = NumRows(batch)
    /\ \A r \in 1..NumRows(batch), j \in 1..Len(batch.columns) :
           SameValue(out.data[r][j], batch.data[r][j])

\* no two records of the batch have the same key
UniqueByKey(type, batch) ==
    /\ HasKey(type, batch)
    /\ \A r, q \in 1..NumRows(batch) :
           r # q => KeyOf(type, batch.columns, batch.data[r]) # KeyOf(type, batch.columns, batch.data[q])

\* the file is the last of its dataset type in the order of file names
SortsLast(file, type) == \A f \in Glob(output_dir, type) : f = file \/ LexLess(f, file)

\* a read of the latest entity snapshot that follows a write of an entity
\* batch unique by lei
ReadsBackLatest ==
    /\ Wrote
    /\ call.type = "legal_entities"
    /\ UniqueByKey(call.type, call.batch)
    /\ call'.op = "read" /\ call'.type = "legal_entities" /\ call'.version = LATEST

\* C12 as stated: in any state of the store, write_legal_entities of a batch
\* unique by lei followed by read_legal_entities("latest") returns exactly
\* the records of the batch.
C12_Original ==
    [][ReadsBackLatest => (call'.raised = "" /\ SameRecords(call'.out, call.batch))]_vars

\* C12 amended: write_legal_entities of a batch unique by lei followed by
\* read_legal_entities("latest") returns exactly the records of the batch
\* when the file written is the last entity file of the store in the order
\* of file names.
C12_RoundTrip ==
    [][(ReadsBackLatest /\ SortsLast(call.file, call.type))
           => (call'.raised = "" /\ SameRecords(call'.out, call.batch))]_vars

\* C12 witness: a store of two entity snapshots whose latest one holds the
\* batch of two records under study, and read("latest") returned them.
C12_Witness ==
    /\ call.op = "read" /\ call.type = "legal_entities" /\ call.version = LATEST
    /\ call.raised = ""
    /\ ~writer.busy
    /\ dataset = "legal_entities"
    /\ NumRows(source) = 2
    /\ UniqueByKey("legal_entities", source)
    /\ SameRecords(call.out, source)
    /\ Cardinality(Glob(output_dir, "legal_entities")) = 2

\* the version string a snapshot file of the type was written under
VersionOfFile(f, type) == SubSeq(f, Len(Prefix(type)) + 1, Len(f) - Len(PARQUET))

\* the version strings of the snapshots of a type, and the greatest of them
VersionsWritten(type) == {VersionOfFile(f, type) : f \in Glob(output_dir, type)}
MaxVersion(type) ==
    CHOOSE v \in VersionsWritten(type) : \A w \in VersionsWritten(type) : w = v \/ LexLess(w, v)

\* a read call returns in this step
Reads == call'.op = "read" /\ call' # call

\* C13: with at least one snapshot of the type stored, a read of "latest"
\* returns the snapshot whose version string is the greatest of the version
\* strings of the type, which is the last element of list_versions.
C13_LatestIsMaxVersion ==
    [][(Reads /\ call'.version = LATEST /\ ~writer.busy /\ Glob(output_dir, call'.type) # {})
           => /\ call'.raised = ""
              /\ call'.out = ReadParquet(
                     output_dir[SnapshotFile(call'.type, MaxVersion(call'.type))].content, keepsNa)
              /\ LET listed == list_versions(output_dir)[call'.type]
                 IN  listed[Len(listed)] = MaxVersion(call'.type)]_vars

\* the store holds a file of the dataset type
HoldsType(type) == \E f \in DOMAIN output_dir : StartsWith(f, Prefix(type))

\* C14: a read raises the not-found error and returns no data when
\* "latest" is asked and the store holds no snapshot of the type, whatever
\* it holds of the other type, and when the version named has no snapshot
\* of the type; the store is as it was before the read.
C14_NotFound ==
    [][(/\ Reads
        /\ \/ call'.version = LATEST /\ ~HoldsType(call'.type)
           \/ /\ call'.version # LATEST
              /\ SnapshotFile(call'.type, call'.version) \notin DOMAIN output_dir)
           => /\ call'.raised = "FileNotFoundError"
              /\ call'.out = NoData
              /\ output_dir' = output_dir]_vars

\* C14 witness: read("latest") of a type raised the not-found error in a
\* store that holds a complete snapshot of the other type only.
C14_Witness ==
    /\ call.op = "read" /\ call.version = LATEST
    /\ call.raised = "FileNotFoundError" /\ call.out = NoData
    /\ ~HoldsType(call.type)
    /\ \E f \in DOMAIN output_dir : output_dir[f].complete

\* a list_versions call returns in this step
Lists == call'.op = "list" /\ call' # call

\* C15: list_versions returns, for each dataset type, exactly the version
\* strings under which the snapshots of the type were written, each as it
\* was given, in ascending order.
C15_ListsWrittenVersions ==
    [][(Lists /\ ~writer.busy)
           => \A type \in Types :
                  call'.out[type] = sorted(Listing(VersionsWritten(type)))]_vars

\* C16: a read that runs while a write of the same dataset type is in
\* progress either does not find the version being written or gets its
\* complete table: it never opens a file whose writer has not closed it.
C16_AtomicWrite ==
    [][Reads => /\ call'.raised \in {"", "FileNotFoundError"}
                /\ \A f \in Glob(output_dir, call'.type) : output_dir[f].complete]_vars

\* C17: no step replaces a stored snapshot: every file of the store is
\* still there after the step, with the table it held before, so a read
\* of its version returns what it returned before.
C17_AppendOnly ==
    [][\A f \in DOMAIN output_dir :
           /\ f \in DOMAIN output_dir'
           /\ output_dir'[f].content = output_dir[f].content]_vars

-----------------------------------------------------------------------------
(* Properties of a run of main *)

\* main has written its four artifacts
MainWroteAll == pc \in {"main_reports_written", "main_done"}

\* C18: after a run, the entity report and the relationship report are two
\* artifacts of the store, each holding the report it was written with,
\* and each is stored under the version of its companion snapshot.
C18_ReportPerDatasetType ==
    MainWroteAll =>
        /\ run.lei_report_path # run.rr_report_path
        /\ output_dir[run.lei_report_path].content = ReportDict(run.lei_report)
        /\ output_dir[run.rr_report_path].content = ReportDict(run.rr_report)
        /\ run.lei_report_path = ReportFile(VersionOfFile(run.lei_path, "legal_entities"))
        /\ run.rr_report_path = ReportFile(VersionOfFile(run.rr_path, "relationships"))

\* C19: the entity snapshot and the relationship snapshot of a run carry
\* the same version string.
C19_OneVersionPerRun ==
    pc \in {"main_rr_written", "main_lei_report_written", "main_reports_written", "main_done"} =>
        VersionOfFile(run.lei_path, "legal_entities") = VersionOfFile(run.rr_path, "relationships")

\* C20: nothing is written before both normalization passes have
\* completed, and a run that aborted, in a normalizer or in one of its four
\* writes, has left no artifact in the store.
C20_AllOrNothing ==
    /\ pc \in {"main_start", "main_loaded", "main_lei_done"} => output_dir = <<>>
    /\ pc = "main_raised" => output_dir = <<>>

\* a file of the run has no column the loaders recognise as an identifier
NoLeiColumn == ~Truthy(first_existing(LeiColCandidates, run.lei_csv.columns))
NoRRColumn ==
    \/ ~Truthy(first_existing(StartColCandidates, run.rr_csv.columns))
    \/ ~Truthy(first_existing(EndColCandidates, run.rr_csv.columns))

\* C21: when the identifier column of the entity file or of the
\* relationship file cannot be resolved, the run fails with a schema error
\* before any snapshot is written: it gets no further than its loaders, it
\* does not go on with an empty batch, and the store stays empty.
C21_SchemaErrorIsFatal ==
    (run.started /\ (NoLeiColumn \/ NoRRColumn)) =>
        /\ pc \in {"main_start", "main_raised"}
        /\ pc = "main_raised" => err = "RuntimeError"
        /\ output_dir = <<>>

\* the lei values of the entity output of the run
EntityOutputLeis == {Val(run.lei_df, r, "lei") : r \in 1..NumRows(run.lei_df)}

\* the steps of main at which the entity normalizer has returned, and those
\* at which the relationship normalizer has returned
LeiNormalized ==
    pc \in {"main_lei_done", "main_rr_done", "main_lei_written", "main_rr_written",
            "main_lei_report_written", "main_reports_written", "main_done"}
RRNormalized == LeiNormalized /\ pc # "main_lei_done"

\* C22: the relationship normalizer does not run before the entity
\* normalizer of the same run has returned; the set V it checks against is
\* exactly the set of lei values of the entity output; so every
\* relationship of the output has its childLei and its parentLei among them.
C22_ValidSetIsEntityOutput ==
    /\ pc \in {"main_start", "main_loaded"} => (run.lei_df = NoData /\ run.rr_df = NoData)
    /\ LeiNormalized => valid_leis = EntityOutputLeis
    /\ RRNormalized =>
           \A r \in 1..NumRows(run.rr_df) :
               /\ Val(run.rr_df, r, "childLei") \in EntityOutputLeis
               /\ Val(run.rr_df, r, "parentLei") \in EntityOutputLeis

\* C22 witness: a relationship passed the check against a non-empty V.
C22_Witness ==
    /\ pc = "main_rr_done"
    /\ NumRows(run.rr_df) = 1
    /\ valid_leis # {}
    /\ valid_leis = EntityOutputLeis

\* the key of duplicate detection of the running normalizer
DuplicateKey == IF dataset = "entity" THEN <<"lei">> ELSE <<"childLei", "parentLei">>

\* the records of d that share their key with another record of d
SharingKey(d) ==
    {r \in 1..NumRows(d) :
        \E q \in 1..NumRows(d) :
            q # r /\ \A i \in DOMAIN DuplicateKey : Val(d, q, DuplicateKey[i]) = Val(d, r, DuplicateKey[i])}

\* C23: duplicate detection is diagnostic only: the batch after it equals
\* the batch before it, duplicates is the number of records whose key is
\* shared with another record of the batch, nothing else of the report
\* changes but the warnings, and the duplicates are counted in valid_records.
C23_DuplicatesDiagnosticOnly ==
    /\ pc = "deduped" =>
           /\ df = prev.df
           /\ report.duplicates = Cardinality(SharingKey(df))
           /\ [report EXCEPT !.duplicates = 0, !.warnings = <<>>]
                  = [prev.report EXCEPT !.duplicates = 0, !.warnings = <<>>]
    /\ pc = "done" =>
           /\ report.valid_records = NumRows(df)
           /\ report.duplicates = Cardinality(SharingKey(df))

\* C23 witness: two records of the returned batch share their key.
C23_Witness ==
    /\ pc = "done"
    /\ report.duplicates = 2
    /\ report.valid_records = 2

\* the column positions of d that hold a null value
NullPositions(d) ==
    {j \in 1..Len(d.columns) : \E r \in 1..NumRows(d) : IsNa(d.data[r][j])}

\* round(n / m * 100, 2) in hundredths of a percent, for 0 <= n <= m, m > 0
Pct(n, m) == (2 * 10000 * n + m) \div (2 * m)

\* LEIDataNormalizer.get_null_analysis: column label -> percentage of null
\* values, for the columns where it is above 0; on an empty frame each
\* percentage is 0 / 0 = nan, which is not above 0.  No method of either
\* normalizer calls it and nothing else assigns report.nulls_by_column.
get_null_analysis(d) ==
    [col \in {d.columns[j] : j \in NullPositions(d)} |->
        Pct(Cardinality({r \in 1..NumRows(d) : IsNa(Val(d, r, col))}), NumRows(d))]

\* C24: the nulls_by_column entry of the returned report has an entry for
\* exactly the columns of the returned batch that hold a null value, each
\* the percentage of null values of that column.
C24_NullsByColumn ==
    pc = "done" =>
        /\ DOMAIN report.nulls_by_column = {df.columns[j] : j \in NullPositions(df)}
        /\ report.nulls_by_column = get_null_analysis(df)

\* C25: type coercion never drops or adds a record: when _convert_types
\* returns, its output has the records of its input, as many and in the
\* same order, under the same columns, whatever values they hold.
C25_CoercionKeepsRecords ==
    pc = "converted" =>
        /\ NumRows(df) = NumRows(prev.df)
        /\ df.index = prev.df.index
        /\ df.columns = prev.df.columns

\* C25 witness: a batch of two relationships went through coercion, one
\* with an out-of-range percentage that was clipped, one with a date and a
\* percentage that do not parse and became null.
C25_Witness ==
    /\ pc = "converted" /\ dataset = "rel"
    /\ NumRows(df) = 2
    /\ Val(prev.df, 1, "ownershipPercentage") = S_150
    /\ Val(df, 1, "ownershipPercentage") = <<"<float>", "1", "0", "0">>
    /\ Val(prev.df, 2, "ownershipPercentage") = S_x
    /\ Val(df, 2, "ownershipPercentage") = NaN
    /\ Val(prev.df, 2, "relationshipStartDate") = S_x
    /\ Val(df, 2, "relationshipStartDate") = NaT

\* C26: entity_id is a function of the normalized lei alone: in every run,
\* on every build, the entity_id of an output record is the digest of its
\* lei, so two output records with equal lei have equal entity_id whatever
\* their other fields, their position and the run they come from.
C26_EntityIdFromLeiAlone ==
    Returned("entity") =>
        /\ \A r \in 1..NumRows(df) : Val(df, r, "entity_id") = Md5Hex16(Val(df, r, "lei"))
        /\ \A r, q \in 1..NumRows(df) :
               Val(df, r, "lei") = Val(df, q, "lei") => Val(df, r, "entity_id") = Val(df, q, "entity_id")

\* C26 witness: two output records with the same lei and different names
\* carry the same entity_id.
C26_Witness ==
    /\ Returned("entity")
    /\ NumRows(df) = 2
    /\ Val(df, 1, "lei") = Val(df, 2, "lei")
    /\ Val(df, 1, "legalName") # Val(df, 2, "legalName")
    /\ Val(df, 1, "entity_id") = Val(df, 2, "entity_id")

-----------------------------------------------------------------------------
(* Properties of a normalizer instance that is called again *)

\* the report a new normalizer instance returns for the batch of the call
FreshReport ==
    IF dataset = "entity" THEN normalize_lei_data(NormalizerInput, keepsNa).report
    ELSE normalize_relationship_data(NormalizerInput, valid_leis, keepsNa).report

\* C27: the report a call of normalize_* returns describes that call only,
\* also when the instance was called before: it is the report a new
\* instance returns for the same batch; referential_integrity_issues is
\* the number of records the check removed in this call, at most
\* total_records, and the warnings are those of this call.
C27_ReportOfThisCallOnly ==
    pc = "done" =>
        /\ report.referential_integrity_issues = removed.integrity
        /\ report.referential_integrity_issues <= report.total_records
        /\ report.warnings = FreshReport.warnings
        /\ report = FreshReport

\* the value a record of a file has in the first existing candidate column
RawField(file, r, candidates) ==
    IF first_existing(candidates, file.columns) = NoCol THEN NaN
    ELSE Val(file, r, first_existing(candidates, file.columns))

\* s is the identifier, as spelled in the Level 1 file, of a record that
\* is in the entity output of the run
SpelledLikeSurvivor(s) ==
    \E e \in 1..NumRows(run.lei_csv) :
        /\ Contains(run.lei_df.index, run.lei_csv.index[e])
        /\ RawField(run.lei_csv, e, LeiColCandidates) = s

\* C28: identifier normalization is the same for the two datasets: a
\* relationship record of the Level 2 file whose child and parent are
\* spelled exactly like the identifiers of surviving entities of the Level 1
\* file is in the relationship output of the same run.
C28_SameIdentifierNormalization ==
    (RRNormalized /\ ~NoRRColumn) =>
        \A r \in 1..NumRows(run.rr_csv) :
            (/\ SpelledLikeSurvivor(RawField(run.rr_csv, r, StartColCandidates))
             /\ SpelledLikeSurvivor(RawField(run.rr_csv, r, EndColCandidates)))
                => Contains(run.rr_df.index, run.rr_csv.index[r])

-----------------------------------------------------------------------------
(* Properties of the graph loader *)

\* load_legal_entities has returned
LoadReturned == pc \in {"graph_returned", "graph_closed"}

\* the batches are consecutive slices of at most batch_size records that
\* cover the records 0..n-1 once each
BatchesPartition ==
    LET b == graph.batches
    IN  /\ \A k \in 1..Len(b) : b[k][2] - b[k][1] \in 1..graph.batch_size
        /\ \A k \in 1..Len(b) - 1 : b[k][2] = b[k + 1][1]
        /\ IF graph.records = 0 THEN b = <<>>
           ELSE b # <<>> /\ b[1][1] = 0 /\ b[Len(b)][2] = graph.records

\* C29: load_legal_entities splits the records into consecutive batches of
\* at most batch_size that cover every record once, and whatever the
\* transactions did, created + updated + failed is the number of records.
C29_EveryRecordAccounted ==
    LoadReturned =>
        /\ BatchesPartition
        /\ graph.counts.created + graph.counts.updated + graph.counts.failed = graph.records

\* C30: every use of a graph session comes after a successful connect() on
\* the connection: get_session is not called while the driver is unset.
C30_SessionAfterConnect ==
    /\ graph.sessions_without_driver = 0
    /\ graph.sessions > 0 => graph.connected

====
